---- MODULE Spec2Model ----
(***************************************************************************)
(* ARGUS-Brain radar inference service: the classification engine and its *)
(* model registry (ARGUS-Brain/app/inference.py), the service             *)
(* configuration (ARGUS-Brain/app/config.py) and the polling orchestrator *)
(* with its published snapshot (ARGUS-Brain/app/main.py).                 *)
(*                                                                         *)
(* Strings the code strips, normalises or compares are sequences of       *)
(* one-character strings; enumerations are TLA+ strings.  Probabilities   *)
(* are exact fractions num/den, so no rounding is modelled.               *)
(***************************************************************************)
EXTENDS Integers, Sequences, FiniteSets, TLC

VARIABLES
    config,                      \* ServiceState.config (ServiceConfig)
    threshold,                   \* ArgusBrainInferencer.threshold
    feature_window_ms,           \* ArgusBrainInferencer.feature_window_ms
    buffers,                     \* ArgusBrainInferencer._buffers
    models,                      \* ArgusBrainInferencer._models
    active_model_id,             \* ArgusBrainInferencer._active_model_id
    frame_timestamp_history,     \* deque(maxlen=240)
    inference_ms_history,        \* deque(maxlen=300)
    model_latency_frame_history, \* deque(maxlen=300)
    pipeline_ms_history,         \* deque(maxlen=300)
    last_frame,                  \* the published snapshot
    last_error,
    source_connected,
    last_polled_at,
    last_uav_decision,           \* track id -> last decision
    track_log,                   \* history: per track, each observation's decision, alert
                                 \* and probability map, and the predictor
                                 \* methods called for it
    stop_event,                  \* asyncio.Event
    loop_task,                   \* index into tasks, 0 for None
    tasks,                       \* every asyncio task created for poll_loop
    stop_calls,                  \* stop() calls suspended in "await self.loop_task"
    clock,                       \* wall clock, ms
    cycle_no,                    \* history: number of poll cycles begun
    cycle_outcome,               \* history: how the latest finished cycle ended
    reply                        \* what the latest API call returned or raised

engineVars  == <<threshold, feature_window_ms, models, active_model_id>>
trackVars   == <<buffers, last_uav_decision, track_log>>
historyVars == <<frame_timestamp_history, inference_ms_history,
                 model_latency_frame_history, pipeline_ms_history>>
frameVars   == <<last_frame, last_error, source_connected, last_polled_at>>
loopVars    == <<stop_event, loop_task, tasks, stop_calls, clock, cycle_no, cycle_outcome>>
vars == <<config, engineVars, trackVars, historyVars, frameVars, loopVars, reply>>

Max(a, b) == IF a >= b THEN a ELSE b
Min(a, b) == IF a <= b THEN a ELSE b

\* the element of a one-element set: Once({F(x) : x \in {e}}) is F(e) with e
\* evaluated once, as a statement sequence evaluates it
Once(S) == CHOOSE x \in S : TRUE

\* dict.get(key, default)
Get(d, k, default) == IF k \in DOMAIN d THEN d[k] ELSE default

-----------------------------------------------------------------------------
(* str.strip()                                                             *)

IsSpace(c) == c \in {" ", "\t"}

RECURSIVE lstrip(_)
lstrip(s) == IF s # <<>> /\ IsSpace(Head(s)) THEN lstrip(Tail(s)) ELSE s

RECURSIVE rstrip(_)
rstrip(s) == IF s # <<>> /\ IsSpace(s[Len(s)]) THEN rstrip(SubSeq(s, 1, Len(s) - 1)) ELSE s

strip(s) == rstrip(lstrip(s))

-----------------------------------------------------------------------------
(* The file system the service runs on: the working directory is "/",     *)
(* /a, /r, /l, /n and /k are loadable joblib artifacts, /b exists but     *)
(* joblib.load raises on it, nothing else exists.                          *)

HEURISTIC_DEFAULT == <<"h", "e", "u", "r", "i", "s", "t", "i", "c", "-", "d", "e", "f", "a", "u", "l", "t">>
ENV_MODEL == <<"e", "n", "v", "-", "m", "o", "d", "e", "l">>
RUNTIME_MODEL == <<"r", "u", "n", "t", "i", "m", "e", "-", "m", "o", "d", "e", "l">>

Cwd == <<"/">>
ArtifactA == <<"/", "a">>
ArtifactB == <<"/", "b">>
ArtifactR == <<"/", "r">>
ArtifactL == <<"/", "l">>
ArtifactN == <<"/", "n">>
ArtifactK == <<"/", "k">>

Artifacts == {ArtifactA, ArtifactR, ArtifactL, ArtifactN, ArtifactK}

\* Path(model_path).expanduser().resolve(): absolute paths stay, relative ones
\* are joined to the working directory ("" is the working directory itself).
Resolve(model_path) ==
    IF model_path # <<>> /\ Head(model_path) = "/" THEN model_path ELSE Cwd \o model_path

PathExists(path) == path \in {Cwd, ArtifactB} \cup Artifacts

\* joblib.load(path) succeeds
Loadable(path) == path \in Artifacts

\* Path.name: the last component
RECURSIVE PathName(_)
PathName(path) ==
    IF \E i \in 1..Len(path) : path[i] = "/"
    THEN PathName(Tail(path))
    ELSE path

\* what one query of a predictor does: it returns a value or raises
Answer(value) == [raises |-> FALSE, value |-> value]
Raising == [raises |-> TRUE, value |-> <<>>]

NoPredictor ==
    [kind |-> "none", has_predict_proba |-> FALSE, has_predict |-> FALSE, classes |-> <<>>,
     split |-> 0, proba_low |-> Raising, proba_high |-> Raising,
     label_low |-> Raising, label_high |-> Raising]

\* The object joblib.load returns.  A predictor answers by the latest speed,
\* below `split` or not; scores are in hundredths.
\*   /a  predict_proba, predict and the vocabulary ("drone", "bird")
\*   /r  both queries; predict_proba raises at low speed and returns no score
\*       otherwise, where predict raises
\*   /l  predict alone: "drone" at low speed, "ufo" otherwise
\*   /n  predict_proba alone, no vocabulary: [0.3, 0.7] and [0.0, 0.0]
\*   /k  both queries, the vocabulary ("0", "1"): [0.3, 0.7] at low speed;
\*       three scores otherwise, where predict answers "drone"
PredictorOf(path) ==
    CASE path = ArtifactR ->
           [kind |-> "sklearn", has_predict_proba |-> TRUE, has_predict |-> TRUE,
            classes |-> << <<"d", "r", "o", "n", "e">>, <<"b", "i", "r", "d">> >>,
            split |-> 30,
            proba_low |-> Raising, proba_high |-> Answer(<<>>),
            label_low |-> Answer(<<"d", "r", "o", "n", "e">>), label_high |-> Raising]
      [] path = ArtifactL ->
           [kind |-> "sklearn", has_predict_proba |-> FALSE, has_predict |-> TRUE,
            classes |-> <<>>,
            split |-> 30,
            proba_low |-> Raising, proba_high |-> Raising,
            label_low |-> Answer(<<"d", "r", "o", "n", "e">>),
            label_high |-> Answer(<<"u", "f", "o">>)]
      [] path = ArtifactN ->
           [kind |-> "sklearn", has_predict_proba |-> TRUE, has_predict |-> FALSE,
            classes |-> <<>>,
            split |-> 30,
            proba_low |-> Answer(<<30, 70>>), proba_high |-> Answer(<<0, 0>>),
            label_low |-> Raising, label_high |-> Raising]
      [] path = ArtifactK ->
           [kind |-> "sklearn", has_predict_proba |-> TRUE, has_predict |-> TRUE,
            classes |-> << <<"0">>, <<"1">> >>,
            split |-> 30,
            proba_low |-> Answer(<<30, 70>>), proba_high |-> Answer(<<10, 20, 70>>),
            label_low |-> Answer(<<"0">>),
            label_high |-> Answer(<<"d", "r", "o", "n", "e">>)]
      [] OTHER ->
           [kind |-> "sklearn", has_predict_proba |-> TRUE, has_predict |-> TRUE,
            classes |-> << <<"d", "r", "o", "n", "e">>, <<"b", "i", "r", "d">> >>,
            split |-> 30,
            proba_low |-> Answer(<<90, 10>>), proba_high |-> Answer(<<20, 80>>),
            label_low |-> Answer(<<"d", "r", "o", "n", "e">>),
            label_high |-> Answer(<<"b", "i", "r", "d">>)]

-----------------------------------------------------------------------------
(* Model registry (ArgusBrainInferencer)                                   *)

Return(reg) == [raised |-> FALSE, error |-> "", reg |-> reg]
Raise(reg, text) == [raised |-> TRUE, error |-> text, reg |-> reg]

HeuristicModel(model_id) ==
    [model_id |-> model_id,
     model_type |-> "heuristic",
     model_version |-> <<"heuristic-multiclass-v1">>,
     model_path |-> <<>>,
     predictor |-> NoPredictor]

register_heuristic_model(reg, model_id, activate) ==
    [models |-> (model_id :> HeuristicModel(model_id)) @@ reg.models,
     active |-> IF activate THEN model_id ELSE reg.active]

\* activate_model without its membership test
activate_model_unchecked(reg, model_id) == Return([reg EXCEPT !.active = model_id])

activate_model(reg, model_id) ==
    IF model_id \notin DOMAIN reg.models
    THEN Raise(reg, "model not found")
    ELSE Return([reg EXCEPT !.active = model_id])

\* register_joblib_model that activates the entry whatever the flag says
register_joblib_model_activating(reg, raw_model_id, model_path, activate) ==
    LET model_id == strip(raw_model_id)
        path == Resolve(model_path)
    IN  IF model_id = <<>> THEN Raise(reg, "model_id must not be empty")
        ELSE IF ~PathExists(path) THEN Raise(reg, "model path does not exist")
        ELSE IF ~Loadable(path) THEN Raise(reg, "failed to load joblib model")
        ELSE Return([models |-> (model_id :> [model_id |-> model_id,
                                              model_type |-> "joblib",
                                              model_version |-> <<"joblib:">> \o PathName(path),
                                              model_path |-> path,
                                              predictor |-> PredictorOf(path)]) @@ reg.models,
                     active |-> model_id])

register_joblib_model(reg, raw_model_id, model_path, activate) ==
    LET model_id == strip(raw_model_id)
        path == Resolve(model_path)
    IN  IF model_id = <<>> THEN Raise(reg, "model_id must not be empty")
        ELSE IF ~PathExists(path) THEN Raise(reg, "model path does not exist")
        ELSE IF ~Loadable(path) THEN Raise(reg, "failed to load joblib model")
        ELSE LET entry == [model_id |-> model_id,
                           model_type |-> "joblib",
                           model_version |-> <<"joblib:">> \o PathName(path),
                           model_path |-> path,
                           predictor |-> PredictorOf(path)]
                 reg1 == [reg EXCEPT !.models = (model_id :> entry) @@ reg.models]
             IN  IF activate THEN activate_model(reg1, model_id) ELSE Return(reg1)

\* unregister_model that leaves the active pointer on the removed entry
unregister_model_keeps_pointer(reg, model_id) ==
    IF model_id \notin DOMAIN reg.models
    THEN Raise(reg, "model not found")
    ELSE IF model_id = HEURISTIC_DEFAULT
    THEN Raise(reg, "heuristic-default model cannot be removed")
    ELSE Return([reg EXCEPT
                    !.models = [k \in DOMAIN reg.models \ {model_id} |-> reg.models[k]]])

\* unregister_model that pops the entry if present and never raises for an
\* unknown id
unregister_model_silent(reg, model_id) ==
    IF model_id = HEURISTIC_DEFAULT
    THEN Raise(reg, "heuristic-default model cannot be removed")
    ELSE Return([models |-> [k \in DOMAIN reg.models \ {model_id} |-> reg.models[k]],
                 active |-> IF reg.active = model_id THEN HEURISTIC_DEFAULT ELSE reg.active])

\* unregister_model that resets the active pointer whatever was removed
unregister_model_always_resets(reg, model_id) ==
    IF model_id \notin DOMAIN reg.models
    THEN Raise(reg, "model not found")
    ELSE IF model_id = HEURISTIC_DEFAULT
    THEN Raise(reg, "heuristic-default model cannot be removed")
    ELSE Return([models |-> [k \in DOMAIN reg.models \ {model_id} |-> reg.models[k]],
                 active |-> HEURISTIC_DEFAULT])

unregister_model(reg, model_id) ==
    IF model_id \notin DOMAIN reg.models
    THEN Raise(reg, "model not found")
    ELSE IF model_id = HEURISTIC_DEFAULT
    THEN Raise(reg, "heuristic-default model cannot be removed")
    ELSE Return([models |-> [k \in DOMAIN reg.models \ {model_id} |-> reg.models[k]],
                 active |-> IF reg.active = model_id THEN HEURISTIC_DEFAULT ELSE reg.active])

load_legacy_model_path(reg, model_path, activate) ==
    register_joblib_model(reg, RUNTIME_MODEL, model_path, activate)

\* _get_active_model: the active entry, the pointer reset when it dangles
get_active_model(reg) ==
    IF reg.active \in DOMAIN reg.models
    THEN reg.models[reg.active]
    ELSE reg.models[HEURISTIC_DEFAULT]

model_version(reg) == get_active_model(reg).model_version

\* a constructor that lets the error of an unknown active id escape
InferencerInit_strict(model_path, active_id) ==
    LET reg0 == register_heuristic_model([models |-> <<>>, active |-> HEURISTIC_DEFAULT],
                                         HEURISTIC_DEFAULT, TRUE)
        r1 == IF model_path # <<>>
              THEN register_joblib_model(reg0, ENV_MODEL, model_path, TRUE)
              ELSE Return(reg0)
    IN  IF r1.raised THEN r1
        ELSE IF active_id # <<>> THEN activate_model(r1.reg, active_id)
        ELSE r1

\* ArgusBrainInferencer.__init__: the registry it leaves, raised when the
\* startup model path cannot be registered.
InferencerInit(model_path, active_id) ==
    LET reg0 == register_heuristic_model([models |-> <<>>, active |-> HEURISTIC_DEFAULT],
                                         HEURISTIC_DEFAULT, TRUE)
        r1 == IF model_path # <<>>
              THEN register_joblib_model(reg0, ENV_MODEL, model_path, TRUE)
              ELSE Return(reg0)
    IN  IF r1.raised THEN r1
        ELSE IF active_id # <<>>
        THEN LET r2 == activate_model(r1.reg, active_id)
             IN  IF r2.raised THEN activate_model(r1.reg, HEURISTIC_DEFAULT) ELSE r2
        ELSE r1

-----------------------------------------------------------------------------
(* Classification engine (ArgusBrainInferencer)                            *)

MULTICLASS_LABELS ==
    <<"HELICOPTER", "UAV", "HIGHSPEED", "BIRD_FLOCK", "BIRD", "CIVIL_AIR", "FIGHTER">>

Labels == {MULTICLASS_LABELS[i] : i \in 1..Len(MULTICLASS_LABELS)}

CLASS_ALIASES ==
    << <<<<"H", "E", "L", "I", "C", "O", "P", "T", "E", "R">>, "HELICOPTER">>,
       <<<<"H", "E", "L", "I">>, "HELICOPTER">>,
       <<<<"R", "O", "T", "O", "R", "C", "R", "A", "F", "T">>, "HELICOPTER">>,
       <<<<"U", "A", "V">>, "UAV">>,
       <<<<"D", "R", "O", "N", "E">>, "UAV">>,
       <<<<"U", "A", "S">>, "UAV">>,
       <<<<"H", "I", "G", "H", "S", "P", "E", "E", "D">>, "HIGHSPEED">>,
       <<<<"H", "Y", "P", "E", "R", "S", "O", "N", "I", "C">>, "HIGHSPEED">>,
       <<<<"M", "I", "S", "S", "I", "L", "E">>, "HIGHSPEED">>,
       <<<<"B", "I", "R", "D", "_", "F", "L", "O", "C", "K">>, "BIRD_FLOCK">>,
       <<<<"F", "L", "O", "C", "K">>, "BIRD_FLOCK">>,
       <<<<"B", "I", "R", "D", "S">>, "BIRD_FLOCK">>,
       <<<<"B", "I", "R", "D">>, "BIRD">>,
       <<<<"C", "I", "V", "I", "L", "_", "A", "I", "R">>, "CIVIL_AIR">>,
       <<<<"C", "O", "M", "M", "E", "R", "C", "I", "A", "L", "_", "A", "I", "R", "C", "R", "A", "F", "T">>, "CIVIL_AIR">>,
       <<<<"A", "I", "R", "L", "I", "N", "E", "R">>, "CIVIL_AIR">>,
       <<<<"F", "I", "G", "H", "T", "E", "R">>, "FIGHTER">>,
       <<<<"M", "I", "L", "I", "T", "A", "R", "Y", "_", "J", "E", "T">>, "FIGHTER">> >>

LowerCase == <<"a", "b", "c", "d", "e", "f", "g", "h", "i", "j", "k", "l", "m",
               "n", "o", "p", "q", "r", "s", "t", "u", "v", "w", "x", "y", "z">>
UpperCase == <<"A", "B", "C", "D", "E", "F", "G", "H", "I", "J", "K", "L", "M",
               "N", "O", "P", "Q", "R", "S", "T", "U", "V", "W", "X", "Y", "Z">>

\* one character of .replace("-", "_").replace(" ", "_").upper()
NormalizeChar(c) ==
    IF c \in {"-", " "} THEN "_"
    ELSE IF \E i \in 1..Len(LowerCase) : LowerCase[i] = c
    THEN UpperCase[CHOOSE i \in 1..Len(LowerCase) : LowerCase[i] = c]
    ELSE c

\* the label None is the empty string
NoLabel == ""

normalize_class_label(raw_label) ==
    LET stripped == strip(raw_label)
        normalized == [i \in 1..Len(stripped) |-> NormalizeChar(stripped[i])]
    IN  IF \E i \in 1..Len(CLASS_ALIASES) : CLASS_ALIASES[i][1] = normalized
        THEN CLASS_ALIASES[CHOOSE i \in 1..Len(CLASS_ALIASES) : CLASS_ALIASES[i][1] = normalized][2]
        ELSE NoLabel

RECURSIVE SumOver(_, _)
SumOver(f, keys) ==
    IF keys = {} THEN 0
    ELSE LET k == CHOOSE x \in keys : TRUE IN f[k] + SumOver(f, keys \ {k})

RECURSIVE SeqSum(_)
SeqSum(s) == IF s = <<>> THEN 0 ELSE Head(s) + SeqSum(Tail(s))

SeqMax(s) == CHOOSE x \in {s[i] : i \in 1..Len(s)} : \A j \in 1..Len(s) : s[j] <= x
SeqMin(s) == CHOOSE x \in {s[i] : i \in 1..Len(s)} : \A j \in 1..Len(s) : s[j] >= x

\* A probability map is num[label] / den.
UniformMap == [num |-> [l \in Labels |-> 100], den |-> Len(MULTICLASS_LABELS)]

\* a normalisation that clamps the scores and does not scale them
normalize_probability_map_unscaled(raw_scores) ==
    [num |-> [l \in Labels |-> Max(0, Get(raw_scores, l, 0))], den |-> 1]

\* ArgusBrainInferencer._normalize_probability_map
normalize_probability_map(raw_scores) ==
    LET clamped == [l \in Labels |-> Max(0, Get(raw_scores, l, 0))]
        total == SumOver(clamped, Labels)
    IN  IF total <= 0 THEN UniformMap
        ELSE [num |-> [l \in Labels |-> clamped[l] * 100], den |-> total]

\* Scores of the heuristic are kept in halves (1.0 is 2), so 1.5 and 2.5 are integers.
Bump(scores, adds) == [l \in Labels |-> scores[l] + Get(adds, l, 0)]

\* a scorer that gives every label the same score
predict_with_heuristic_flat(buffer) ==
    [num |-> [l \in Labels |-> 100], den |-> Len(MULTICLASS_LABELS)]

\* ArgusBrainInferencer._predict_with_heuristic
predict_with_heuristic(buffer) ==
    LET latest == buffer[Len(buffer)]
        speeds == [i \in 1..Len(buffer) |-> buffer[i].speed]
        n == Len(speeds)
        total_speed == SeqSum(speeds)
        speed_variation == IF n > 1 THEN SeqMax(speeds) - SeqMin(speeds) ELSE 0
        normalized_hint == normalize_class_label(latest.object_class)
        s0 == [l \in Labels |-> 2]
        s1 == IF normalized_hint # NoLabel THEN Bump(s0, normalized_hint :> 14) ELSE s0
        s2 == IF total_speed < 8 * n
              THEN Bump(s1, "BIRD" :> 12 @@ "BIRD_FLOCK" :> 8)
              ELSE IF total_speed < 35 * n
              THEN Bump(s1, "UAV" :> 10 @@ "HELICOPTER" :> 8 @@ "BIRD" :> 4)
              ELSE IF total_speed < 90 * n
              THEN Bump(s1, "UAV" :> 6 @@ "HELICOPTER" :> 6 @@ "CIVIL_AIR" :> 4)
              ELSE IF total_speed < 180 * n
              THEN Bump(s1, "CIVIL_AIR" :> 10 @@ "FIGHTER" :> 6 @@ "HIGHSPEED" :> 4)
              ELSE Bump(s1, "HIGHSPEED" :> 12 @@ "FIGHTER" :> 10)
        s3 == IF latest.distance <= 30
              THEN Bump(s2, "UAV" :> 4 @@ "BIRD" :> 4 @@ "HELICOPTER" :> 2)
              ELSE s2
        s4 == IF latest.distance >= 120
              THEN Bump(s3, "CIVIL_AIR" :> 5 @@ "FIGHTER" :> 4 @@ "HIGHSPEED" :> 2)
              ELSE s3
        s5 == IF latest.z <= 200
              THEN Bump(s4, "UAV" :> 4 @@ "HELICOPTER" :> 3 @@ "BIRD" :> 4)
              ELSE s4
        s6 == IF latest.z >= 1500
              THEN Bump(s5, "CIVIL_AIR" :> 6 @@ "FIGHTER" :> 6 @@ "HIGHSPEED" :> 4)
              ELSE s5
        s7 == IF speed_variation < 15
              THEN Bump(s6, "HELICOPTER" :> 4 @@ "CIVIL_AIR" :> 3 @@ "BIRD_FLOCK" :> 2)
              ELSE IF speed_variation > 60
              THEN Bump(s6, "HIGHSPEED" :> 5 @@ "FIGHTER" :> 4)
              ELSE s6
        s8 == IF latest.confidence >= 80 /\ normalized_hint # NoLabel
              THEN Bump(s7, normalized_hint :> 4)
              ELSE s7
    IN  normalize_probability_map(s8)

build_feature_vector(buffer) ==
    LET latest == buffer[Len(buffer)]
        speeds == [i \in 1..Len(buffer) |-> buffer[i].speed]
    IN  [speed |-> latest.speed,
         distance |-> latest.distance,
         confidence |-> latest.confidence,
         speed_sum |-> SeqSum(speeds),
         speed_span |-> IF Len(speeds) > 1 THEN SeqMax(speeds) - SeqMin(speeds) ELSE 0,
         count |-> Len(buffer)]

\* predictor.predict_proba([feature_vector])[0], in hundredths, or its raising
predict_proba(predictor, feature_vector) ==
    IF feature_vector.speed < predictor.split THEN predictor.proba_low ELSE predictor.proba_high

\* predictor.predict([feature_vector])[0], or its raising
predict(predictor, feature_vector) ==
    IF feature_vector.speed < predictor.split THEN predictor.label_low ELSE predictor.label_high

\* mapped scores are percentages; the empty dict is [empty |-> TRUE]
NoMapping == [empty |-> TRUE, scores |-> [l \in Labels |-> 0]]

RECURSIVE MapZip(_, _, _)
MapZip(raw_classes, probabilities, mapped) ==
    IF raw_classes = <<>> \/ probabilities = <<>> THEN mapped
    ELSE LET normalized == normalize_class_label(Head(raw_classes))
         IN  MapZip(Tail(raw_classes), Tail(probabilities),
                    IF normalized = NoLabel THEN mapped
                    ELSE [mapped EXCEPT ![normalized] = @ + Max(0, Head(probabilities))])

map_model_output(raw_classes, probabilities) ==
    LET zero == [l \in Labels |-> 0]
        binary == [zero EXCEPT !["UAV"] = Max(0, Min(100, probabilities[2])),
                               !["CIVIL_AIR"] = Max(0, Min(100, probabilities[1]))]
    IN  IF raw_classes = <<>>
        THEN (IF Len(probabilities) = 2 THEN [empty |-> FALSE, scores |-> binary] ELSE NoMapping)
        ELSE LET mapped == MapZip(raw_classes, probabilities, zero)
             IN  IF SumOver(mapped, Labels) <= 0 /\ Len(probabilities) = 2
                 THEN [empty |-> FALSE, scores |-> binary]
                 ELSE IF SumOver(mapped, Labels) <= 0 THEN NoMapping
                 ELSE [empty |-> FALSE, scores |-> mapped]

\* None is [none |-> TRUE]; `queries` lists the predictor's methods called
NoPrediction == [none |-> TRUE, map |-> UniformMap, queries |-> <<>>]

OneHot(label) == [num |-> [l \in Labels |-> IF l = label THEN 100 ELSE 0], den |-> 1]

\* a predictor asked for its label before its probabilities
predict_with_joblib_model_label_first(predictor, buffer) ==
    LET feature_vector == build_feature_vector(buffer)
        prediction == predict(predictor, feature_vector)
        mapped_label == IF predictor.has_predict /\ ~prediction.raises
                        THEN normalize_class_label(prediction.value)
                        ELSE NoLabel
    IN  IF mapped_label # NoLabel
        THEN [none |-> FALSE, map |-> OneHot(mapped_label), queries |-> <<"predict">>]
        ELSE [NoPrediction EXCEPT !.queries = IF predictor.has_predict
                                              THEN <<"predict">> ELSE <<>>]

\* ArgusBrainInferencer._predict_with_joblib_model: an exception of either
\* query leaves the try block with None
predict_with_joblib_model(predictor, buffer) ==
    LET feature_vector == build_feature_vector(buffer)
        raw_probabilities == predict_proba(predictor, feature_vector)
        mapped == IF predictor.has_predict_proba /\ ~raw_probabilities.raises
                  THEN map_model_output(predictor.classes, raw_probabilities.value)
                  ELSE NoMapping
        prediction == predict(predictor, feature_vector)
        mapped_label == IF predictor.has_predict /\ ~prediction.raises
                        THEN normalize_class_label(prediction.value)
                        ELSE NoLabel
        asked == IF predictor.has_predict_proba THEN <<"predict_proba">> ELSE <<>>
        asked_both == IF predictor.has_predict THEN Append(asked, "predict") ELSE asked
    IN  IF predictor.has_predict_proba /\ raw_probabilities.raises
        THEN [NoPrediction EXCEPT !.queries = asked]
        ELSE IF ~mapped.empty
        THEN [none |-> FALSE, map |-> normalize_probability_map(mapped.scores),
              queries |-> asked]
        ELSE IF predictor.has_predict /\ prediction.raises
        THEN [NoPrediction EXCEPT !.queries = asked_both]
        ELSE IF mapped_label # NoLabel
        THEN [none |-> FALSE, map |-> OneHot(mapped_label), queries |-> asked_both]
        ELSE [NoPrediction EXCEPT !.queries = asked_both]

\* a classification that gives an empty window no probability at all
predict_multiclass_probabilities_zero_on_empty(reg, buffer) ==
    IF buffer = <<>> THEN [num |-> [l \in Labels |-> 0], den |-> 1]
    ELSE LET active_model == get_active_model(reg)
             prediction == predict_with_joblib_model(active_model.predictor, buffer)
         IN  IF active_model.model_type = "joblib" /\ active_model.predictor.kind # "none"
                /\ ~prediction.none
             THEN prediction.map
             ELSE predict_with_heuristic(buffer)

\* the predictor methods _predict_multiclass_probabilities calls, in order
predictor_queries(reg, buffer) ==
    IF buffer = <<>> THEN <<>>
    ELSE LET active_model == get_active_model(reg)
         IN  IF active_model.model_type = "joblib" /\ active_model.predictor.kind # "none"
             THEN predict_with_joblib_model(active_model.predictor, buffer).queries
             ELSE <<>>

\* ArgusBrainInferencer._predict_multiclass_probabilities
predict_multiclass_probabilities(reg, buffer) ==
    IF buffer = <<>> THEN UniformMap
    ELSE LET active_model == get_active_model(reg)
             prediction == predict_with_joblib_model(active_model.predictor, buffer)
         IN  IF active_model.model_type = "joblib" /\ active_model.predictor.kind # "none"
                /\ ~prediction.none
             THEN prediction.map
             ELSE predict_with_heuristic(buffer)

\* probabilities["UAV"] + probabilities["HELICOPTER"] * 0.35, clamped to [0, 100]
to_uav_probability(probabilities) ==
    LET num == 100 * probabilities.num["UAV"] + 35 * probabilities.num["HELICOPTER"]
        den == 100 * probabilities.den
    IN  [num |-> Max(0, Min(100 * den, num)), den |-> den]

\* a decision whose NON_UAV band leaves out its upper end
to_uav_decision_open_band(probability, T) ==
    IF probability.num >= T * probability.den THEN "UAV"
    ELSE IF probability.num < (T - 20) * probability.den THEN "NON_UAV"
    ELSE "UNKNOWN"

\* ArgusBrainInferencer._to_uav_decision
to_uav_decision(probability, T) ==
    IF probability.num >= T * probability.den THEN "UAV"
    ELSE IF probability.num <= (T - 20) * probability.den THEN "NON_UAV"
    ELSE "UNKNOWN"

\* round(x, 2) of a percentage, in hundredths: the nearest hundredth, an exact
\* half going to the even one
Round2(x) ==
    LET q == (100 * x.num) \div x.den
        r == (100 * x.num) % x.den
    IN  IF 2 * r > x.den \/ (2 * r = x.den /\ q % 2 = 1) THEN q + 1 ELSE q

\* the last of the labels that have the largest probability among `labels`
largest_of_last(probabilities, labels) ==
    labels[CHOOSE i \in 1..Len(labels) :
        /\ \A j \in 1..Len(labels) :
              probabilities.num[labels[j]] <= probabilities.num[labels[i]]
        /\ \A j \in (i + 1)..Len(labels) :
              probabilities.num[labels[j]] < probabilities.num[labels[i]]]

\* sorted(..., reverse=True) is stable: of the labels that have the largest
\* probability among `labels`, the one that comes first
largest_of(probabilities, labels) ==
    labels[CHOOSE i \in 1..Len(labels) :
        /\ \A j \in 1..Len(labels) :
              probabilities.num[labels[j]] <= probabilities.num[labels[i]]
        /\ \A j \in 1..(i - 1) :
              probabilities.num[labels[j]] < probabilities.num[labels[i]]]

\* ArgusBrainInferencer._sorted_probabilities over the labels still to place
RECURSIVE sorted_entries(_, _)
sorted_entries(probabilities, labels) ==
    IF labels = <<>> THEN <<>>
    ELSE LET class_name == largest_of(probabilities, labels)
         IN  <<[className |-> class_name,
                probability |-> Round2([num |-> probabilities.num[class_name],
                                        den |-> probabilities.den])]>>
             \o sorted_entries(probabilities,
                               SelectSeq(labels, LAMBDA l : l # class_name))

\* ArgusBrainInferencer._sorted_probabilities: the dict is in the order of
\* MULTICLASS_LABELS on every path that builds it
sorted_probabilities(probabilities) == sorted_entries(probabilities, MULTICLASS_LABELS)

\* a front eviction that also drops the observation exactly at the cutoff
RECURSIVE Evict_inclusive(_, _)
Evict_inclusive(buffer, cutoff) ==
    IF buffer # <<>> /\ Head(buffer).timestamp_ms <= cutoff
    THEN Evict_inclusive(Tail(buffer), cutoff)
    ELSE buffer

\* observe, lines 199-201: the front eviction
RECURSIVE Evict(_, _)
Evict(buffer, cutoff) ==
    IF buffer # <<>> /\ Head(buffer).timestamp_ms < cutoff
    THEN Evict(Tail(buffer), cutoff)
    ELSE buffer

\* observe, lines 195-201: the window after the append and the eviction
push(buffer, observation, window_ms) ==
    Evict(Append(buffer, observation), observation.timestamp_ms - window_ms)

\* ArgusBrainInferencer.observe, lines 204-221: the returned dict
ObserveResult(eng, window, probabilities) ==
    LET sorted == sorted_probabilities(probabilities)
        uav_probability == to_uav_probability(probabilities)
    IN  [buffer |-> window,
         probabilities |-> probabilities,
         queries |-> predictor_queries(eng.reg, window),
         inference |->
            [class |-> sorted[1].className,
             confidence |-> Round2([num |-> sorted[1].probability, den |-> 100]),
             probabilities |-> sorted,
             classificationType |-> "MULTI_CLASS",
             uavDecision |-> to_uav_decision(uav_probability, eng.threshold),
             uavProbability |-> Round2(uav_probability),
             uavThreshold |-> eng.threshold,
             featureWindowMs |-> eng.feature_window_ms,
             inferenceModelVersion |-> model_version(eng.reg)]]

\* ArgusBrainInferencer.observe: the track's new window and the returned dict
observe(eng, buffer, observation) ==
    Once({ Once({ ObserveResult(eng, window, probabilities) :
                    probabilities \in {predict_multiclass_probabilities(eng.reg, window)} }) :
             window \in {push(buffer, observation, eng.feature_window_ms)} })

-----------------------------------------------------------------------------
(* ServiceConfig                                                           *)

Has(patch, key) == key \in DOMAIN patch

\* a patch application that stores the patched values as they come
apply_patch_unclamped(cfg, patch) ==
    [argus_source_url |-> Get(patch, "argusSourceUrl", cfg.argus_source_url),
     argus_auth_token |-> Get(patch, "argusAuthToken", cfg.argus_auth_token),
     poll_interval_ms |-> Get(patch, "pollIntervalMs", cfg.poll_interval_ms),
     request_timeout_ms |-> Get(patch, "requestTimeoutMs", cfg.request_timeout_ms),
     uav_threshold |-> Get(patch, "uavThreshold", cfg.uav_threshold),
     feature_window_ms |-> Get(patch, "featureWindowMs", cfg.feature_window_ms),
     model_path |-> Get(patch, "modelPath", cfg.model_path),
     active_model_id |-> Get(patch, "activeModelId", cfg.active_model_id)]

\* ServiceConfig.apply_patch
apply_patch(cfg, patch) ==
    [argus_source_url |->
        IF Has(patch, "argusSourceUrl") THEN patch.argusSourceUrl ELSE cfg.argus_source_url,
     argus_auth_token |->
        IF Has(patch, "argusAuthToken") THEN patch.argusAuthToken ELSE cfg.argus_auth_token,
     poll_interval_ms |->
        IF Has(patch, "pollIntervalMs") THEN Max(20, patch.pollIntervalMs)
        ELSE cfg.poll_interval_ms,
     request_timeout_ms |->
        IF Has(patch, "requestTimeoutMs") THEN Max(100, patch.requestTimeoutMs)
        ELSE cfg.request_timeout_ms,
     uav_threshold |->
        IF Has(patch, "uavThreshold") THEN Max(1, Min(99, patch.uavThreshold))
        ELSE cfg.uav_threshold,
     feature_window_ms |->
        IF Has(patch, "featureWindowMs") THEN Max(200, patch.featureWindowMs)
        ELSE cfg.feature_window_ms,
     model_path |->
        IF Has(patch, "modelPath") THEN patch.modelPath ELSE cfg.model_path,
     active_model_id |->
        IF Has(patch, "activeModelId")
        THEN (IF patch.activeModelId = <<>> THEN HEURISTIC_DEFAULT ELSE patch.activeModelId)
        ELSE cfg.active_model_id]

\* ServiceState._sync_model_config
sync_model_config(cfg, reg) ==
    [cfg EXCEPT !.active_model_id = reg.active,
                !.model_path = IF reg.active \in DOMAIN reg.models
                               THEN reg.models[reg.active].model_path
                               ELSE <<>>]

-----------------------------------------------------------------------------
(* Upstream feed payloads (JSON).  A JSON value is a tagged record; a key  *)
(* that is absent from an object is absent from the record's DOMAIN.       *)

JStr(s) == [t |-> "str", s |-> s, n |-> 0]
JInt(n) == [t |-> "int", s |-> <<>>, n |-> n]
\* the float Infinity (json accepts the literal), which int() cannot convert
JInf == [t |-> "inf", s |-> <<>>, n |-> 0]

UNKNOWN_CLASS == <<"U", "N", "K", "N", "O", "W", "N">>

Digits == <<"0", "1", "2", "3", "4", "5", "6", "7", "8", "9">>

\* f"TRK-{uuid.uuid4().hex[:6].upper()}": a fresh id per cycle and position
GeneratedId(cycle, position) ==
    <<"T", "R", "K", "-", Digits[(cycle % 10) + 1], Digits[(position % 10) + 1]>>

\* main._to_text on a string or None (the empty sequence)
to_text(value, fallback) == IF strip(value) # <<>> THEN strip(value) ELSE fallback

\* deque(maxlen=n).append
\* a bounded append that refuses the new entry when the history is full
DequeAppend_keeping_oldest(d, x, maxlen) ==
    IF Len(d) >= maxlen THEN d ELSE Append(d, x)

\* deque(maxlen=...).append
DequeAppend(d, x, maxlen) ==
    IF Len(d) >= maxlen THEN Append(Tail(d), x) ELSE Append(d, x)

FRAME_HISTORY_MAXLEN == 240
LATENCY_HISTORY_MAXLEN == 300

\* round(x, 3) of a latency held in ten-thousandths of a millisecond: the
\* nearest thousandth, an exact half going to the even one
Round3(x) ==
    LET q == x \div 10
        r == x % 10
    IN  IF r > 5 \/ (r = 5 /\ q % 2 = 1) THEN 10 * (q + 1) ELSE 10 * q

\* an index that rounds fraction * (n - 1) to the nearest integer
percentile_index_nearest(n, percent) == (percent * (n - 1) + 50) \div 100

\* int(fraction * (n - 1)) for the fraction percent / 100
percentile_index(n, percent) == (percent * (n - 1)) \div 100

\* ServiceState._percentiles over latencies in ten-thousandths of a millisecond
percentiles(values) ==
    IF values = <<>> THEN <<0, 0>>
    ELSE LET ordered == SortSeq(values, LAMBDA a, b : a < b)
             p50_idx == percentile_index(Len(ordered), 50)
             p95_idx == percentile_index(Len(ordered), 95)
         IN  <<Round3(ordered[p50_idx + 1]), Round3(ordered[p95_idx + 1])>>

\* a status that reports the feed's total as it is, and 0 when it gives none
build_status_trusting_feed(source_status, objects, connected, reg) ==
    LET total == Get(source_status, "totalDetected", JStr(<<>>))
        given == Get(source_status, "modelVersion", JStr(<<>>))
    IN  [raised |-> total.t = "inf",
         error |-> "cannot convert float infinity to integer",
         status |->
            [connectionStatus |-> IF connected THEN "LIVE" ELSE "DISCONNECTED",
             modelVersion |-> to_text(given.s, model_version(reg)),
             trackedObjects |-> Len(objects),
             totalDetected |-> IF total.t = "int" THEN total.n ELSE 0]]

\* ServiceState._build_status; raised when int() overflows on totalDetected
build_status(source_status, objects, connected, reg) ==
    LET total == Get(source_status, "totalDetected", JStr(<<>>))
        given == Get(source_status, "modelVersion", JStr(<<>>))
    IN  [raised |-> total.t = "inf",
         error |-> "cannot convert float infinity to integer",
         status |->
            [connectionStatus |-> IF connected THEN "LIVE" ELSE "DISCONNECTED",
             modelVersion |-> to_text(given.s, model_version(reg)),
             trackedObjects |-> Len(objects),
             totalDetected |->
                Max(Len(objects), IF total.t = "int" THEN total.n ELSE Len(objects))]]

\* A published status block read back as a source_status dict
AsSourceStatus(status) ==
    [modelVersion |-> JStr(status.modelVersion), totalDetected |-> JInt(status.totalDetected)]

\* a lookup that takes a track never seen for one already decided UAV
previous_decision_uav(decisions, object_id) == Get(decisions, object_id, "UAV")

\* self.last_uav_decision.get(object_id, "UNKNOWN")
previous_decision(decisions, object_id) == Get(decisions, object_id, "UNKNOWN")

\* poll_once, lines 237-304: one raw object; raised when float() overflows on
\* its speed (an integer literal beyond the float range).
RecordObject(acc, raw, object_id, object_class, observed, inference_ms) ==
    LET inference == observed.inference
        prev_decision == previous_decision(acc.last_uav_decision, object_id)
        current_decision == inference.uavDecision
        alerting == prev_decision # "UAV" /\ current_decision = "UAV"
        alert == [type |-> "ALERT",
                  message |-> "UAV suspect",
                  objectId |-> object_id,
                  objectClass |-> inference.class]
    IN  [acc EXCEPT
                !.buffers = (object_id :> observed.buffer) @@ acc.buffers,
                !.inference_ms_history = DequeAppend(@, inference_ms, LATENCY_HISTORY_MAXLEN),
                !.latency_total = @ + inference_ms,
                !.last_uav_decision = (object_id :> current_decision) @@ acc.last_uav_decision,
                !.track_log = (object_id :>
                                 Append(Get(acc.track_log, object_id, <<>>),
                                        [decision |-> current_decision,
                                         alert |-> alerting,
                                         probabilities |-> observed.probabilities,
                                         queries |-> observed.queries]))
                              @@ acc.track_log,
                !.events = IF alerting THEN Append(@, alert) ELSE @,
                !.objects = Append(@, [id |-> object_id,
                                       class |-> inference.class,
                                       rawClass |-> object_class,
                                       speed |-> raw.speed,
                                       distance |-> raw.distance,
                                       confidence |-> inference.confidence,
                                       probabilities |-> inference.probabilities,
                                       classificationType |-> inference.classificationType,
                                       uavDecision |-> inference.uavDecision,
                                       uavProbability |-> inference.uavProbability,
                                       uavThreshold |-> inference.uavThreshold,
                                       featureWindowMs |-> inference.featureWindowMs,
                                       inferenceModelVersion |-> inference.inferenceModelVersion])]

\* an object loop that lets the threshold move between two objects: every
\* object after the first is classified one point higher than the one before
ProcessObject_between_reloads(eng, acc, raw, position, now_ms, cycle, inference_ms) ==
    LET object_id == to_text(raw.id, GeneratedId(cycle, position))
        object_class == to_text(raw.cls, UNKNOWN_CLASS)
        moved == [eng EXCEPT !.threshold = @ + position - 1]
        observation == [timestamp_ms |-> now_ms,
                        z |-> raw.z,
                        speed |-> raw.speed,
                        distance |-> raw.distance,
                        object_class |-> object_class,
                        confidence |-> raw.confidence]
    IN  IF raw.speed_overflows
        THEN [acc EXCEPT !.raised = TRUE, !.error = "int too large to convert to float"]
        ELSE Once({ RecordObject(acc, raw, id, cls, observed, inference_ms) :
                      id \in {object_id}, cls \in {object_class},
                      observed \in {observe(moved, Get(acc.buffers, object_id, <<>>), observation)} })

ProcessObject(eng, acc, raw, position, now_ms, cycle, inference_ms) ==
    LET object_id == to_text(raw.id, GeneratedId(cycle, position))
        object_class == to_text(raw.cls, UNKNOWN_CLASS)
        observation == [timestamp_ms |-> now_ms,
                        z |-> raw.z,
                        speed |-> raw.speed,
                        distance |-> raw.distance,
                        object_class |-> object_class,
                        confidence |-> raw.confidence]
    IN  IF raw.speed_overflows
        THEN [acc EXCEPT !.raised = TRUE, !.error = "int too large to convert to float"]
        ELSE Once({ RecordObject(acc, raw, id, cls, observed, inference_ms) :
                      id \in {object_id}, cls \in {object_class},
                      observed \in {observe(eng, Get(acc.buffers, object_id, <<>>), observation)} })

RECURSIVE ProcessObjects(_, _, _, _, _, _, _)
ProcessObjects(eng, acc, objects, position, now_ms, cycle, inference_ms) ==
    IF position > Len(objects) \/ acc.raised THEN acc
    ELSE Once({ ProcessObjects(eng, next, objects, position + 1, now_ms, cycle, inference_ms) :
                  next \in {ProcessObject(eng, acc, objects[position], position,
                                          now_ms, cycle, inference_ms)} })

\* poll_once, lines 306-322: a feed event with the field defaults applied
NormalizeEvent(evt) ==
    [type |-> to_text(evt.type, <<"I", "N", "F", "O">>),
     message |-> "feed",
     objectId |-> to_text(evt.objectId, <<>>),
     objectClass |-> to_text(evt.cls, UNKNOWN_CLASS)]

\* ServiceState.poll_once, lines 306-340, after the objects are processed
PollResult(response, lat, cycle, eng, acc1) ==
    LET feed_events == [i \in 1..Len(response.payload.events) |->
                            NormalizeEvent(response.payload.events[i])]
        built == build_status(response.payload.status, acc1.objects, TRUE, eng.reg)
        recorded == ~acc1.raised
    IN  [raised |-> acc1.raised \/ built.raised,
         reached_publish |-> recorded,
         error |-> IF acc1.raised THEN acc1.error ELSE built.error,
         buffers |-> acc1.buffers,
         last_uav_decision |-> acc1.last_uav_decision,
         track_log |-> acc1.track_log,
         inference_ms_history |-> acc1.inference_ms_history,
         pipeline_ms_history |->
            IF recorded THEN DequeAppend(pipeline_ms_history, lat.pipeline, LATENCY_HISTORY_MAXLEN)
            ELSE pipeline_ms_history,
         model_latency_frame_history |->
            IF recorded
            THEN DequeAppend(model_latency_frame_history,
                             IF Len(acc1.objects) > 0
                             THEN acc1.latency_total \div Len(acc1.objects) ELSE 0,
                             LATENCY_HISTORY_MAXLEN)
            ELSE model_latency_frame_history,
         frame_timestamp_history |->
            IF recorded THEN DequeAppend(frame_timestamp_history, clock, FRAME_HISTORY_MAXLEN)
            ELSE frame_timestamp_history,
         frame |-> [objects |-> acc1.objects,
                    events |-> acc1.events \o feed_events,
                    systemStatus |-> built.status,
                    origin |-> [objects |-> cycle, events |-> cycle, systemStatus |-> cycle]]]

\* ServiceState.poll_once up to the publish: what the cycle leaves in the
\* engine and the histories, the frame it would publish, and whether it raised.
\* `response` is what the fetch gave: an error, or a parsed payload.
poll_once(response, lat, cycle) ==
    LET eng == [threshold |-> threshold,
                feature_window_ms |-> feature_window_ms,
                reg |-> [models |-> models, active |-> active_model_id]]
        acc0 == [raised |-> ~response.ok,
                 error |-> response.error,
                 buffers |-> buffers,
                 last_uav_decision |-> last_uav_decision,
                 track_log |-> track_log,
                 inference_ms_history |-> inference_ms_history,
                 latency_total |-> 0,
                 objects |-> <<>>,
                 events |-> <<>>]
    IN  Once({ PollResult(response, lat, cycle, e, acc1) :
                 e \in {eng},
                 acc1 \in {ProcessObjects(eng, acc0, response.payload.objects, 1,
                                          clock, cycle, lat.inference)} })

\* an except branch that also empties the events of the frame
failure_frame_dropping_events(frame, cycle) ==
    [frame EXCEPT
        !.systemStatus = build_status(AsSourceStatus(frame.systemStatus), frame.objects, FALSE,
                                      [models |-> models, active |-> active_model_id]).status,
        !.events = <<>>,
        !.origin.events = cycle,
        !.origin.systemStatus = cycle]

\* an except branch that rebuilds the status as connected
failure_frame_connected(frame, cycle) ==
    [frame EXCEPT
        !.systemStatus = build_status(AsSourceStatus(frame.systemStatus), frame.objects, TRUE,
                                      [models |-> models, active |-> active_model_id]).status,
        !.origin.systemStatus = cycle]

\* an except branch that forgets the objects of the frame and keeps its events
failure_frame_dropping_objects(frame, cycle) ==
    [frame EXCEPT
        !.objects = <<>>,
        !.systemStatus = build_status(AsSourceStatus(frame.systemStatus), <<>>, FALSE,
                                      [models |-> models, active |-> active_model_id]).status,
        !.origin.objects = cycle,
        !.origin.systemStatus = cycle]

\* poll_loop's except branch, lines 346-354: the frame with its status rebuilt
failure_frame(frame, cycle) ==
    [frame EXCEPT
        !.systemStatus = build_status(AsSourceStatus(frame.systemStatus), frame.objects, FALSE,
                                      [models |-> models, active |-> active_model_id]).status,
        !.origin.systemStatus = cycle]

-----------------------------------------------------------------------------
(* Construction: ServiceConfig.from_env, then ServiceState.__init__        *)

from_env(env) ==
    [argus_source_url |-> env.argus_source_url,
     argus_auth_token |-> env.argus_auth_token,
     poll_interval_ms |-> env.poll_interval_ms,
     request_timeout_ms |-> env.request_timeout_ms,
     uav_threshold |-> env.uav_threshold,
     feature_window_ms |-> env.feature_window_ms,
     model_path |-> env.model_path,
     active_model_id |-> env.active_model_id]

DefaultEnv ==
    [argus_source_url |-> "http://127.0.0.1:8080/api/v1/radar/frame",
     argus_auth_token |-> "",
     poll_interval_ms |-> 100,
     request_timeout_ms |-> 1000,
     uav_threshold |-> 35,
     feature_window_ms |-> 2000,
     model_path |-> <<>>,
     active_model_id |-> HEURISTIC_DEFAULT]

NoReply == [op |-> "none", raised |-> FALSE, error |-> ""]

\* ServiceState.__init__ on the configuration from_env(env) gives; no state
\* when the inferencer's constructor raises (the process does not start).
ServiceStateInit(env) ==
    LET cfg == from_env(env)
        built == InferencerInit(cfg.model_path, cfg.active_model_id)
    IN  /\ ~built.raised
        /\ threshold = cfg.uav_threshold
        /\ feature_window_ms = cfg.feature_window_ms
        /\ buffers = <<>>
        /\ models = built.reg.models
        /\ active_model_id = built.reg.active
        /\ frame_timestamp_history = <<>>
        /\ inference_ms_history = <<>>
        /\ model_latency_frame_history = <<>>
        /\ pipeline_ms_history = <<>>
        /\ last_frame = [objects |-> <<>>,
                         events |-> <<>>,
                         systemStatus |-> build_status(<<>>, <<>>, FALSE, built.reg).status,
                         origin |-> [objects |-> 0, events |-> 0, systemStatus |-> 0]]
        /\ last_error = ""
        /\ source_connected = FALSE
        /\ last_polled_at = 0
        /\ last_uav_decision = <<>>
        /\ track_log = <<>>
        /\ stop_event = FALSE
        /\ loop_task = 0
        /\ tasks = <<>>
        /\ stop_calls = {}
        /\ clock = 0
        /\ cycle_no = 0
        /\ cycle_outcome = [cycle |-> 0, result |-> "none", error |-> ""]
        /\ reply = NoReply
        /\ config = sync_model_config(cfg, built.reg)

-----------------------------------------------------------------------------
(* API operations of ServiceState; each body runs under self.lock and has  *)
(* no suspension point, so it is one step.                                 *)

Registry == [models |-> models, active |-> active_model_id]

Snapshot ==
    /\ reply' = [op |-> "snapshot", raised |-> FALSE, error |-> "",
                 objects |-> last_frame.objects,
                 events |-> last_frame.events,
                 systemStatus |-> last_frame.systemStatus,
                 origin |-> last_frame.origin]
    /\ UNCHANGED <<config, engineVars, trackVars, historyVars, frameVars, loopVars>>

Health ==
    /\ reply' = [op |-> "health", raised |-> FALSE, error |-> "",
                 status |-> IF source_connected THEN "ok" ELSE "degraded",
                 sourceConnected |-> source_connected,
                 activeModelId |-> active_model_id,
                 modelVersion |-> model_version(Registry),
                 lastPolledAt |-> last_polled_at,
                 lastError |-> last_error]
    /\ UNCHANGED <<config, engineVars, trackVars, historyVars, frameVars, loopVars>>

ListModels ==
    /\ reply' = [op |-> "list_models", raised |-> FALSE, error |-> "",
                 activeModelId |-> active_model_id,
                 models |-> DOMAIN models]
    /\ UNCHANGED <<config, engineVars, trackVars, historyVars, frameVars, loopVars>>

\* a registry call followed by _sync_model_config, skipped when the call raised
RegistryCall(op, arg, result) ==
    /\ reply' = [op |-> op, raised |-> result.raised, error |-> result.error, arg |-> arg]
    /\ models' = result.reg.models
    /\ active_model_id' = result.reg.active
    /\ config' = IF result.raised THEN config ELSE sync_model_config(config, result.reg)
    /\ UNCHANGED <<threshold, feature_window_ms, trackVars, historyVars, frameVars, loopVars>>

RegisterModel(model_id, model_path, activate) ==
    RegistryCall("register_model",
                 [model_id |-> model_id, model_path |-> model_path, activate |-> activate],
                 register_joblib_model(Registry, model_id, model_path, activate))

ActivateModel(model_id) ==
    RegistryCall("activate_model", model_id, activate_model(Registry, model_id))

UnregisterModel(model_id) ==
    RegistryCall("unregister_model", model_id, unregister_model(Registry, model_id))

\* a reload that applies the new feature window to the stored windows at once
Reload_repruning(patch) ==
    LET cfg1 == apply_patch(config, patch)
    IN  /\ threshold' = cfg1.uav_threshold
        /\ feature_window_ms' = cfg1.feature_window_ms
        /\ buffers' = [object_id \in DOMAIN buffers |->
                           Evict(buffers[object_id], clock - cfg1.feature_window_ms)]
        /\ config' = sync_model_config(cfg1, Registry)
        /\ reply' = [op |-> "reload", raised |-> FALSE, error |-> "", arg |-> patch]
        /\ UNCHANGED <<models, active_model_id, last_uav_decision, track_log,
                       historyVars, frameVars, loopVars>>

\* ServiceState.reload: the patch is applied and the engine updated before the
\* model path and the active id are tried, and an error skips the rest.
Reload(patch) ==
    LET cfg1 == apply_patch(config, patch)
        model_path == IF Has(patch, "modelPath") THEN strip(patch.modelPath) ELSE <<>>
        loaded == IF model_path # <<>>
                  THEN load_legacy_model_path(Registry, model_path, TRUE)
                  ELSE Return(Registry)
        wanted == IF Has(patch, "activeModelId") THEN strip(patch.activeModelId) ELSE <<>>
        activated == IF loaded.raised THEN loaded
                     ELSE IF wanted # <<>> THEN activate_model(loaded.reg, wanted)
                     ELSE loaded
    IN  /\ threshold' = cfg1.uav_threshold
        /\ feature_window_ms' = cfg1.feature_window_ms
        /\ models' = activated.reg.models
        /\ active_model_id' = activated.reg.active
        /\ config' = IF activated.raised THEN cfg1 ELSE sync_model_config(cfg1, activated.reg)
        /\ reply' = [op |-> "reload", raised |-> activated.raised, error |-> activated.error,
                     arg |-> patch]
        /\ UNCHANGED <<trackVars, historyVars, frameVars, loopVars>>

-----------------------------------------------------------------------------
(* The poll loop.  A task is at "check" (the while test), "fetch" (inside  *)
(* poll_once, suspended in the GET), "sleep" (in asyncio.sleep) or "done". *)
(* Everything between two suspension points runs as one step.              *)

\* a while test that ignores the stop signal
loop_continues_regardless(stop_is_set) == TRUE

\* poll_loop's while test
loop_continues(stop_is_set) == ~stop_is_set

\* a loop whose cycle error escapes poll_loop and ends the task
after_cycle_error_escapes(raised) == IF raised THEN "done" ELSE "sleep"

\* where poll_loop goes after a cycle: the except branch swallows the error,
\* and both ways reach the sleep
after_cycle(raised) == "sleep"

\* start() calls modelled
MaxTasks == 2

\* ServiceState.start
Start ==
    /\ Len(tasks) < MaxTasks
    /\ stop_event' = FALSE
    /\ tasks' = Append(tasks, [pc |-> "check", cycle |-> 0, wake_at |-> 0])
    /\ loop_task' = Len(tasks) + 1
    /\ reply' = [op |-> "start", raised |-> FALSE, error |-> ""]
    /\ UNCHANGED <<config, engineVars, trackVars, historyVars, frameVars,
                   stop_calls, clock, cycle_no, cycle_outcome>>

\* ServiceState.stop up to its await; it returns at once when there is no
\* task or the task is already done.
Stop ==
    /\ stop_event' = TRUE
    /\ IF loop_task = 0
       THEN /\ reply' = [op |-> "stop", raised |-> FALSE, error |-> ""]
            /\ UNCHANGED <<loop_task, stop_calls>>
       ELSE IF tasks[loop_task].pc = "done"
       THEN /\ reply' = [op |-> "stop", raised |-> FALSE, error |-> ""]
            /\ loop_task' = 0
            /\ UNCHANGED stop_calls
       ELSE /\ stop_calls' = stop_calls \cup {loop_task}
            /\ reply' = [op |-> "stop_awaiting", raised |-> FALSE, error |-> ""]
            /\ UNCHANGED loop_task
    /\ UNCHANGED <<config, engineVars, trackVars, historyVars, frameVars,
                   tasks, clock, cycle_no, cycle_outcome>>

\* ServiceState.stop after its await: the awaited task has finished
StopReturn(t) ==
    /\ t \in stop_calls
    /\ tasks[t].pc = "done"
    /\ stop_calls' = stop_calls \ {t}
    /\ loop_task' = 0
    /\ reply' = [op |-> "stop", raised |-> FALSE, error |-> ""]
    /\ UNCHANGED <<config, engineVars, trackVars, historyVars, frameVars,
                   stop_event, tasks, clock, cycle_no, cycle_outcome>>

\* poll_loop's while test: leave the loop, or enter poll_once up to the GET
LoopCheck(t, max_cycles) ==
    /\ t \in 1..Len(tasks)
    /\ tasks[t].pc = "check"
    /\ IF ~loop_continues(stop_event)
       THEN /\ tasks' = [tasks EXCEPT ![t].pc = "done"]
            /\ UNCHANGED cycle_no
       ELSE /\ cycle_no < max_cycles
            /\ cycle_no' = cycle_no + 1
            /\ tasks' = [tasks EXCEPT ![t].pc = "fetch", ![t].cycle = cycle_no + 1]
    /\ UNCHANGED <<config, engineVars, trackVars, historyVars, frameVars,
                   stop_event, loop_task, stop_calls, clock, cycle_outcome, reply>>

\* The rest of poll_once after the GET returns or raises, and poll_loop's
\* except branch, up to the sleep.
PollCycle(t, response, lat) ==
    /\ t \in 1..Len(tasks)
    /\ tasks[t].pc = "fetch"
    /\ \E cycle \in {tasks[t].cycle} : \E done \in {poll_once(response, lat, cycle)} :
           /\ buffers' = done.buffers
           /\ last_uav_decision' = done.last_uav_decision
           /\ track_log' = done.track_log
           /\ inference_ms_history' = done.inference_ms_history
           /\ pipeline_ms_history' = done.pipeline_ms_history
           /\ model_latency_frame_history' = done.model_latency_frame_history
           /\ frame_timestamp_history' = done.frame_timestamp_history
           /\ IF done.raised
              THEN /\ source_connected' = FALSE
                   /\ last_error' = done.error
                   /\ last_frame' = failure_frame(last_frame, cycle)
                   /\ last_polled_at' = IF done.reached_publish THEN clock ELSE last_polled_at
                   /\ cycle_outcome' = [cycle |-> cycle, result |-> "failed", error |-> done.error]
              ELSE /\ source_connected' = TRUE
                   /\ last_error' = ""
                   /\ last_polled_at' = clock
                   /\ last_frame' = done.frame
                   /\ cycle_outcome' = [cycle |-> cycle, result |-> "published", error |-> ""]
           /\ tasks' = [tasks EXCEPT ![t].pc = after_cycle(done.raised),
                                     ![t].wake_at = clock + Max(20, config.poll_interval_ms)]
    /\ UNCHANGED <<config, engineVars, stop_event, loop_task, stop_calls, clock, cycle_no, reply>>

\* asyncio.sleep returns, no earlier than asked
WakeUp(t) ==
    /\ t \in 1..Len(tasks)
    /\ tasks[t].pc = "sleep"
    /\ clock' = Max(clock, tasks[t].wake_at)
    /\ tasks' = [tasks EXCEPT ![t].pc = "check"]
    /\ UNCHANGED <<config, engineVars, trackVars, historyVars, frameVars,
                   stop_event, loop_task, stop_calls, cycle_no, cycle_outcome, reply>>

\* ArgusBrainInferencer._to_uav_decision applied to a probability under the
\* threshold the engine holds
ToUavDecision(probability) ==
    /\ reply' = [op |-> "to_uav_decision", raised |-> FALSE, error |-> "",
                 arg |-> probability,
                 threshold |-> threshold,
                 decision |-> to_uav_decision(probability, threshold)]
    /\ UNCHANGED <<config, engineVars, trackVars, historyVars, frameVars, loopVars>>

\* ServiceState.__init__, lines 119-126: the engine constructed on a
\* configuration's model path and active model id
Construct(model_path, active_id) ==
    \E built \in {InferencerInit(model_path, active_id)} :
        /\ reply' = [op |-> "construct", raised |-> built.raised, error |-> built.error,
                     arg |-> [model_path |-> model_path, active_model_id |-> active_id],
                     active |-> built.reg.active,
                     models |-> DOMAIN built.reg.models]
        /\ UNCHANGED <<config, engineVars, trackVars, historyVars, frameVars, loopVars>>

\* ServiceState._percentiles applied to a latency history
Percentiles(values) ==
    /\ reply' = [op |-> "percentiles", raised |-> FALSE, error |-> "",
                 arg |-> values,
                 result |-> percentiles(values)]
    /\ UNCHANGED <<config, engineVars, trackVars, historyVars, frameVars, loopVars>>

\* time passes while the loop is suspended in the GET or in the sleep
Tick(d, max_clock) ==
    /\ clock + d <= max_clock
    /\ clock' = clock + d
    /\ UNCHANGED <<config, engineVars, trackVars, historyVars, frameVars,
                   stop_event, loop_task, tasks, stop_calls, cycle_no, cycle_outcome, reply>>

-----------------------------------------------------------------------------
(* Inputs                                                                  *)

T1 == <<"T", "1">>
T2 == <<"T", "2">>
M1 == <<"m", "1">>
UnknownId == <<"z", "z">>

\* a low, slow, near object reported as a drone: UAV at threshold 35
Drone(id) ==
    [id |-> id, cls |-> <<"D", "R", "O", "N", "E">>, z |-> 100, speed |-> 20,
     distance |-> 50, confidence |-> 90, speed_overflows |-> FALSE]

\* an unclassified object at medium speed and height: UNKNOWN at threshold 35
Mid(id) ==
    [id |-> id, cls |-> <<>>, z |-> 500, speed |-> 50,
     distance |-> 60, confidence |-> 60, speed_overflows |-> FALSE]

\* a fast, high, far fighter: NON_UAV at threshold 35
Jet(id) ==
    [id |-> id, cls |-> <<"f", "i", "g", "h", "t", "e", "r">>, z |-> 3000, speed |-> 250,
     distance |-> 500, confidence |-> 90, speed_overflows |-> FALSE]

\* an object whose speed is an integer literal beyond the float range
Overflowing(id) == [Mid(id) EXCEPT !.speed_overflows = TRUE]

EmptyPayload == [objects |-> <<>>, events |-> <<>>, status |-> <<>>]

Ok(payload) == [ok |-> TRUE, error |-> "", payload |-> payload]
Failed(text) == [ok |-> FALSE, error |-> text, payload |-> EmptyPayload]

FeedEvent == [type |-> <<>>, objectId |-> T2, cls |-> <<>>]

Responses ==
    << Failed("ReadTimeout"),
       Ok([EmptyPayload EXCEPT !.objects = <<Drone(T1)>>]),
       Ok([EmptyPayload EXCEPT !.objects = <<Mid(T1), Jet(T2)>>, !.events = <<FeedEvent>>,
                               !.status = [totalDetected |-> JInt(5)]]),
       Ok([EmptyPayload EXCEPT !.objects = <<Drone(T1), Overflowing(T2)>>]),
       Ok([EmptyPayload EXCEPT !.objects = <<Mid(T1)>>, !.status = [totalDetected |-> JInf]]) >>

Latencies == << [inference |-> 2, pipeline |-> 5] >>

Envs == << DefaultEnv,
           [DefaultEnv EXCEPT !.model_path = ArtifactA, !.active_model_id = ENV_MODEL] >>

Registrations ==
    << <<M1, ArtifactA, TRUE>>,
       <<<<" ", "m", "1", " ">>, <<"a">>, FALSE>>,
       <<<<" ">>, ArtifactA, TRUE>>,
       <<M1, ArtifactB, TRUE>>,
       <<M1, <<"/", "c">>, TRUE>>,
       <<HEURISTIC_DEFAULT, ArtifactA, FALSE>> >>

ModelIds == {HEURISTIC_DEFAULT, M1, UnknownId}

Patches ==
    << [uavThreshold |-> 60],
       [activeModelId |-> UnknownId],
       [modelPath |-> ArtifactA, featureWindowMs |-> 100] >>

\* what the operator of a running service sends
ServedRegistrations == << <<M1, ArtifactA, TRUE>>, <<M1, ArtifactB, TRUE>> >>
ServedPatches == << [uavThreshold |-> 60], [activeModelId |-> UnknownId] >>

\* one track seen again and again, once twice in a payload
TrackResponses ==
    << Failed("ReadTimeout"),
       Ok([EmptyPayload EXCEPT !.objects = <<Mid(T1)>>]),
       Ok([EmptyPayload EXCEPT !.objects = <<Drone(T1)>>]),
       Ok([EmptyPayload EXCEPT !.objects = <<Jet(T1), Drone(T1)>>]) >>

\* startup configurations that differ in the feature window; from_env takes
\* RADAR_FEATURE_WINDOW_MS as it is, so a negative window is one of them
WindowEnvs ==
    << [DefaultEnv EXCEPT !.poll_interval_ms = 500],
       [DefaultEnv EXCEPT !.poll_interval_ms = 500, !.feature_window_ms = -1] >>

\* one track in every payload, a second one in some
WindowResponses ==
    << Ok([EmptyPayload EXCEPT !.objects = <<Mid(T1)>>]),
       Ok([EmptyPayload EXCEPT !.objects = <<Mid(T1), Jet(T2)>>]) >>

WindowPatches == << [featureWindowMs |-> 100], [uavThreshold |-> 60] >>

TickMs == 500

\* startup thresholds, taken from RADAR_UAV_THRESHOLD as they are
DecisionEnvs ==
    << DefaultEnv,
       [DefaultEnv EXCEPT !.uav_threshold = 10],
       [DefaultEnv EXCEPT !.uav_threshold = 150] >>

DecisionPatches ==
    << [uavThreshold |-> 0], [uavThreshold |-> 20], [uavThreshold |-> 60],
       [uavThreshold |-> 100] >>

\* startup configurations naming each artifact as the model, the built-in
\* model, and two with a negative feature window (every window is empty)
ClassifyEnvs ==
    << DefaultEnv,
       [DefaultEnv EXCEPT !.model_path = ArtifactA, !.active_model_id = ENV_MODEL],
       [DefaultEnv EXCEPT !.model_path = ArtifactR, !.active_model_id = ENV_MODEL],
       [DefaultEnv EXCEPT !.model_path = ArtifactL, !.active_model_id = ENV_MODEL],
       [DefaultEnv EXCEPT !.model_path = ArtifactN, !.active_model_id = ENV_MODEL],
       [DefaultEnv EXCEPT !.model_path = ArtifactK, !.active_model_id = ENV_MODEL],
       [DefaultEnv EXCEPT !.model_path = ArtifactA, !.active_model_id = ENV_MODEL,
                          !.feature_window_ms = -1],
       [DefaultEnv EXCEPT !.feature_window_ms = -1] >>

\* one track, slower or faster than the predictors' split
ClassifyResponses ==
    << Ok([EmptyPayload EXCEPT !.objects = <<Drone(T1)>>]),
       Ok([EmptyPayload EXCEPT !.objects = <<Mid(T1)>>]),
       Ok([EmptyPayload EXCEPT !.objects = <<Jet(T1), Mid(T2)>>]) >>

\* the default environment, and one whose numbers are below or above what a
\* patch would be clamped to
ConfigEnvs ==
    << DefaultEnv,
       [DefaultEnv EXCEPT !.poll_interval_ms = 5, !.request_timeout_ms = 50,
                          !.uav_threshold = 150, !.feature_window_ms = 50] >>

NoPatch == [k \in {} |-> 0]

ConfigPatches ==
    << NoPatch,
       [pollIntervalMs |-> 5, uavThreshold |-> 100],
       [requestTimeoutMs |-> 50],
       [featureWindowMs |-> 100, uavThreshold |-> 0],
       [argusSourceUrl |-> "http://feed/frame", argusAuthToken |-> "token"],
       [modelPath |-> ArtifactA],
       [modelPath |-> ArtifactB],
       [activeModelId |-> M1],
       [uavThreshold |-> 60, featureWindowMs |-> 500,
        modelPath |-> ArtifactA, activeModelId |-> M1] >>

\* the payload of a long run: two tracks in every cycle
HistoryResponse == Ok([EmptyPayload EXCEPT !.objects = <<Mid(T1), Jet(T2)>>])

\* measured latencies that differ from one cycle to the next
LatencyOf(cycle) == [inference |-> 1 + (cycle % 7), pipeline |-> 5 + (cycle % 11)]

\* probabilities are the multiples of 1/ProbabilityDen in [0, 100]
ProbabilityDen == 2
Probabilities == {[num |-> n, den |-> ProbabilityDen] : n \in 0..(100 * ProbabilityDen)}

\* RADAR_MODEL_PATH: unset or empty, the artifacts, a relative path to one, a
\* file joblib cannot load, a directory and a path that does not exist
StartupPaths ==
    {<<>>, ArtifactA, ArtifactR, ArtifactL, ArtifactN, ArtifactK, <<"a">>,
     ArtifactB, Cwd, <<"/", "c">>}

\* RADAR_ACTIVE_MODEL_ID: the ids the constructor registers, ids it does not,
\* the empty string, and ids that differ from a registered one in blanks or
\* in case
StartupIds ==
    {HEURISTIC_DEFAULT, ENV_MODEL, RUNTIME_MODEL, M1, UnknownId, <<>>, <<" ">>,
     <<" ">> \o ENV_MODEL, ENV_MODEL \o <<" ">>, <<" ">> \o HEURISTIC_DEFAULT,
     <<"E", "N", "V", "-", "M", "O", "D", "E", "L">>}

\* latencies in ten-thousandths of a millisecond: 0.0004 ms, 0.0016 ms and
\* 1 ms to 5 ms
OneMs == 10000
LatencyValues == {4, 16, OneMs, 2 * OneMs, 3 * OneMs, 4 * OneMs, 5 * OneMs}
\* the longest latency history drawn
MaxHistoryLen == 4
RECURSIVE SequencesUpTo(_, _)
SequencesUpTo(S, n) ==
    IF n = 0 THEN {<<>>}
    ELSE LET shorter == SequencesUpTo(S, n - 1)
         IN  shorter \cup {Append(h, x) : h \in shorter, x \in S}
LatencyHistories == SequencesUpTo(LatencyValues, MaxHistoryLen)

\* poll cycles modelled
MaxCycles == 2
MaxTrackCycles == 4
MaxWindowCycles == 4
MaxClassifyCycles == 2
\* enough cycles to fill every history and to overflow it
MaxHistoryCycles == 302
\* the wall clock's last modelled instant, ms
MaxClock == 3000
MaxOperatedClock == 500

-----------------------------------------------------------------------------
(* The deployed application: the FastAPI startup hook starts the loop once *)
(* and the shutdown hook stops it once; API calls and loop steps in any    *)
(* order in between.                                                       *)

\* main.on_startup
OnStartup == tasks = <<>> /\ Start

\* main.on_shutdown
OnShutdown == Len(tasks) = 1 /\ ~stop_event /\ Stop

LoopStep(max_cycles, responses) ==
    \/ \E t \in 1..Len(tasks) : LoopCheck(t, max_cycles)
    \/ \E t \in 1..Len(tasks), i \in 1..Len(responses), j \in 1..Len(Latencies) :
          PollCycle(t, responses[i], Latencies[j])
    \/ \E t \in 1..Len(tasks) : WakeUp(t)

Init == ServiceStateInit(DefaultEnv)

Next ==
    \/ Snapshot
    \/ Health
    \/ ListModels
    \/ \E i \in 1..Len(ServedRegistrations) :
          RegisterModel(ServedRegistrations[i][1], ServedRegistrations[i][2],
                        ServedRegistrations[i][3])
    \/ ActivateModel(HEURISTIC_DEFAULT)
    \/ UnregisterModel(M1)
    \/ \E i \in 1..Len(ServedPatches) : Reload(ServedPatches[i])
    \/ OnStartup
    \/ OnShutdown
    \/ \E t \in 1..Len(tasks) : StopReturn(t)
    \/ LoopStep(MaxCycles, Responses)

Spec == Init /\ [][Next]_vars

-----------------------------------------------------------------------------
(* The same application with the scheduling asyncio gives: a runnable task *)
(* runs, a sleep ends, and the GET returns or raises within its timeout.   *)

LiveNext ==
    \/ Snapshot
    \/ OnStartup
    \/ OnShutdown
    \/ \E t \in 1..Len(tasks) : StopReturn(t)
    \/ LoopStep(MaxCycles, Responses)

LiveSpec ==
    /\ Init
    /\ [][LiveNext]_vars
    /\ WF_vars(LoopStep(MaxCycles, Responses))
    /\ WF_vars(\E t \in 1..Len(tasks) : StopReturn(t))

-----------------------------------------------------------------------------
(* ServiceState driven directly: start() and stop() in any order           *)

StartStopNext ==
    \/ Snapshot
    \/ Start
    \/ Stop
    \/ \E t \in 1..Len(tasks) : StopReturn(t)
    \/ LoopStep(MaxCycles, TrackResponses)

StartStopSpec == Init /\ [][StartStopNext]_vars

-----------------------------------------------------------------------------
(* The registry and the configuration, from any construction: no loop      *)

RegistryInit == \E i \in 1..Len(Envs) : ServiceStateInit(Envs[i])

RegistryNext ==
    \/ Health
    \/ ListModels
    \/ \E i \in 1..Len(Registrations) :
          RegisterModel(Registrations[i][1], Registrations[i][2], Registrations[i][3])
    \/ \E id \in ModelIds : ActivateModel(id)
    \/ \E id \in ModelIds : UnregisterModel(id)
    \/ \E i \in 1..Len(Patches) : Reload(Patches[i])

RegistrySpec == RegistryInit /\ [][RegistryNext]_vars

-----------------------------------------------------------------------------
(* One track followed over several cycles, the threshold reloadable        *)

TrackNext ==
    \/ OnStartup
    \/ Reload(ServedPatches[1])
    \/ LoopStep(MaxTrackCycles, TrackResponses)

TrackSpec == Init /\ [][TrackNext]_vars

-----------------------------------------------------------------------------
(* The track windows over time: the loop polls every 500 ms or later and  *)
(* the feature window is reloadable                                        *)

WindowInit == \E i \in 1..Len(WindowEnvs) : ServiceStateInit(WindowEnvs[i])

WindowNext ==
    \/ OnStartup
    \/ LoopStep(MaxWindowCycles, WindowResponses)
    \/ Tick(TickMs, MaxClock)
    \/ Reload(WindowPatches[1])

WindowSpec == WindowInit /\ [][WindowNext]_vars

-----------------------------------------------------------------------------
(* The same loop while the service is operated from outside: reads, the    *)
(* registry calls and reloads of the threshold and of the feature window   *)

OperatedInit == ServiceStateInit(WindowEnvs[1])

OperatedNext ==
    \/ OnStartup
    \/ LoopStep(MaxCycles, WindowResponses)
    \/ Tick(TickMs, MaxOperatedClock)
    \/ \E i \in 1..Len(WindowPatches) : Reload(WindowPatches[i])
    \/ Snapshot
    \/ Health
    \/ ListModels
    \/ RegisterModel(M1, ArtifactA, TRUE)
    \/ ActivateModel(HEURISTIC_DEFAULT)
    \/ UnregisterModel(M1)

OperatedSpec == OperatedInit /\ [][OperatedNext]_vars

-----------------------------------------------------------------------------
(* Classification under every kind of model: the loop classifies what the  *)
(* feed reports with the model the service was started with                *)

ClassifyInit == \E i \in 1..Len(ClassifyEnvs) : ServiceStateInit(ClassifyEnvs[i])

ClassifyNext ==
    \/ OnStartup
    \/ LoopStep(MaxClassifyCycles, ClassifyResponses)

ClassifySpec == ClassifyInit /\ [][ClassifyNext]_vars

-----------------------------------------------------------------------------
(* The configuration from any environment, patched through reload while    *)
(* models are registered and activated                                     *)

ConfigInit == \E i \in 1..Len(ConfigEnvs) : ServiceStateInit(ConfigEnvs[i])

ConfigNext ==
    \/ \E i \in 1..Len(ConfigPatches) : Reload(ConfigPatches[i])
    \/ RegisterModel(M1, ArtifactA, FALSE)
    \/ ActivateModel(HEURISTIC_DEFAULT)

ConfigSpec == ConfigInit /\ [][ConfigNext]_vars

-----------------------------------------------------------------------------
(* A long run of the loop over a steady feed, until every history is full  *)

HistoryNext ==
    \/ OnStartup
    \/ \E t \in 1..Len(tasks) : LoopCheck(t, MaxHistoryCycles)
    \/ \E t \in 1..Len(tasks) : PollCycle(t, HistoryResponse, LatencyOf(tasks[t].cycle))
    \/ \E t \in 1..Len(tasks) : WakeUp(t)

HistorySpec == Init /\ [][HistoryNext]_vars

-----------------------------------------------------------------------------
(* The decision rule under every threshold the engine can hold              *)

DecisionInit == \E i \in 1..Len(DecisionEnvs) : ServiceStateInit(DecisionEnvs[i])

DecisionNext ==
    \/ \E i \in 1..Len(DecisionPatches) : Reload(DecisionPatches[i])
    \/ \E probability \in Probabilities : ToUavDecision(probability)

DecisionSpec == DecisionInit /\ [][DecisionNext]_vars

-----------------------------------------------------------------------------
(* The percentile helper over every short latency history                  *)

PercentileNext == \E values \in LatencyHistories : Percentiles(values)

PercentileSpec == Init /\ [][PercentileNext]_vars

-----------------------------------------------------------------------------
(* The engine's constructor over every startup path and active model id    *)

ConstructNext ==
    \E model_path \in StartupPaths, active_id \in StartupIds : Construct(model_path, active_id)

ConstructSpec == Init /\ [][ConstructNext]_vars

-----------------------------------------------------------------------------
(* Properties                                                              *)

\* a step in which a poll cycle ends, published or failed
CycleEnds == cycle_outcome'.cycle # cycle_outcome.cycle

\* everything but the registry, the configuration and the reply
OutsideRegistry ==
    <<threshold, feature_window_ms, trackVars, historyVars, frameVars, loopVars>>

C2_FailedCycle ==
    [][CycleEnds =>
          IF cycle_outcome'.result = "failed"
          THEN /\ last_frame'.objects = last_frame.objects
               /\ last_frame'.events = last_frame.events
               /\ last_frame'.systemStatus.connectionStatus = "DISCONNECTED"
               /\ ~source_connected'
               /\ last_error' = cycle_outcome'.error
               /\ last_error' # ""
          ELSE /\ source_connected'
               /\ last_error' = ""
               /\ last_frame'.systemStatus.connectionStatus = "LIVE"]_vars

\* a cycle has failed while the frame of an earlier published cycle, with its
\* objects, is still the one published
C2_Witness ==
    /\ cycle_outcome.result = "failed"
    /\ last_frame.origin.objects >= 1
    /\ last_frame.origin.objects < cycle_outcome.cycle
    /\ Len(last_frame.objects) > 0
    /\ ~source_connected
    /\ last_error = cycle_outcome.error

\* C3: a failed cycle does not end the loop task, and unless stop is signalled
\* another cycle starts after it (for every cycle below the modelled number).
C3_LoopSurvivesFailure ==
    /\ [][(CycleEnds /\ cycle_outcome'.result = "failed") =>
             \A t \in 1..Len(tasks) : tasks[t].pc = "fetch" => tasks'[t].pc # "done"]_vars
    /\ \A c \in 1..(MaxCycles - 1) :
          (cycle_outcome.cycle = c /\ cycle_outcome.result = "failed")
              ~> (stop_event \/ cycle_no > c)

\* the cycle after a failed cycle is under way, with no stop signalled
C3_Witness ==
    /\ cycle_outcome.result = "failed"
    /\ cycle_no > cycle_outcome.cycle
    /\ ~stop_event
    /\ Len(tasks) = 1
    /\ tasks[1].pc = "fetch"

\* C4: once stop is signalled no further cycle starts, the cycle in progress
\* still ends with its outcome taking effect, and the task exits and stop()
\* returns.
C4_StopEndsLoop ==
    /\ [][stop_event => cycle_no' = cycle_no]_vars
    /\ \A c \in 1..MaxCycles :
          (stop_event /\ Len(tasks) = 1 /\ tasks[1].pc = "fetch" /\ tasks[1].cycle = c)
              ~> (cycle_outcome.cycle = c)
    /\ stop_event ~> (Len(tasks) = 1 /\ tasks[1].pc = "done")
    /\ (stop_calls # {}) ~> (/\ stop_calls = {}
                             /\ loop_task = 0
                             /\ reply.op = "stop")

\* stop() has returned after waiting for a task that ended a cycle first
C4_Witness ==
    /\ stop_event
    /\ Len(tasks) = 1
    /\ tasks[1].pc = "done"
    /\ tasks[1].cycle >= 1
    /\ cycle_outcome.cycle = tasks[1].cycle
    /\ stop_calls = {}
    /\ reply.op = "stop"

\* C5 as stated: whatever start and stop calls are made, at most one task is
\* inside a poll cycle at a time.
C5_OneCycleAtATime ==
    Cardinality({t \in 1..Len(tasks) : tasks[t].pc = "fetch"}) <= 1

\* C6: for every track, an observation raises an ALERT exactly when its
\* decision is UAV and the decision of the track's previous observation
\* (UNKNOWN when there is none) is not UAV; so UNKNOWN, UNKNOWN, UAV, UAV
\* raises one ALERT, at the third observation.
C6_AlertOnTransition ==
    \A id \in DOMAIN track_log :
        LET log == track_log[id]
            decisions == [i \in 1..Len(log) |-> log[i].decision]
            alerts == {i \in 1..Len(log) : log[i].alert}
        IN  /\ \A i \in 1..Len(log) :
                  log[i].alert <=>
                      /\ log[i].decision = "UAV"
                      /\ (IF i = 1 THEN "UNKNOWN" ELSE log[i - 1].decision) # "UAV"
            /\ decisions = <<"UNKNOWN", "UNKNOWN", "UAV", "UAV">> => alerts = {3}

\* the track has been decided UNKNOWN, UNKNOWN, UAV, UAV in four cycles
C6_Witness ==
    /\ T1 \in DOMAIN track_log
    /\ [i \in 1..Len(track_log[T1]) |-> track_log[T1][i].decision]
          = <<"UNKNOWN", "UNKNOWN", "UAV", "UAV">>
    /\ cycle_no = 4
    /\ last_uav_decision[T1] = "UAV"

\* C7: the active model id names an entry of the registry, and
\* heuristic-default is an entry.
C7_ActiveRegistered ==
    /\ active_model_id \in DOMAIN models
    /\ HEURISTIC_DEFAULT \in DOMAIN models

\* a reload has just been rejected while a registered artifact is active
C7_Witness ==
    /\ reply.op = "reload"
    /\ reply.raised
    /\ active_model_id # HEURISTIC_DEFAULT
    /\ Cardinality(DOMAIN models) >= 3

\* C8: unregister of heuristic-default, or of an id that is not registered,
\* raises and changes nothing.
C8_UnregisterRejected ==
    [][(/\ reply'.op = "unregister_model"
        /\ reply'.arg = HEURISTIC_DEFAULT \/ reply'.arg \notin DOMAIN models)
          => /\ reply'.raised
             /\ UNCHANGED <<config, models, active_model_id, OutsideRegistry>>]_vars

\* unregister of heuristic-default was refused while another model is active
C8_Witness ==
    /\ reply.op = "unregister_model"
    /\ reply.arg = HEURISTIC_DEFAULT
    /\ reply.raised
    /\ active_model_id # HEURISTIC_DEFAULT
    /\ Cardinality(DOMAIN models) >= 2

\* C9 as stated: activate of an unknown id raises and changes nothing; activate
\* of a registered id sets the active model id and changes nothing else.
C9_ActivateOnlyPointer ==
    [][reply'.op = "activate_model" =>
          IF reply'.arg \notin DOMAIN models
          THEN /\ reply'.raised
               /\ UNCHANGED <<config, models, active_model_id, OutsideRegistry>>
          ELSE /\ ~reply'.raised
               /\ active_model_id' = reply'.arg
               /\ config' = [config EXCEPT !.active_model_id = reply'.arg]
               /\ UNCHANGED <<models, OutsideRegistry>>]_vars

\* C9, amended: activate of an unknown id raises and changes nothing; activate
\* of a registered id sets the active model id, makes the configuration's
\* active_model_id and model_path those of the activated entry, and changes
\* nothing else.
C9_ActivateAndSync ==
    [][reply'.op = "activate_model" =>
          IF reply'.arg \notin DOMAIN models
          THEN /\ reply'.raised
               /\ UNCHANGED <<config, models, active_model_id, OutsideRegistry>>
          ELSE /\ ~reply'.raised
               /\ active_model_id' = reply'.arg
               /\ config' = [config EXCEPT !.active_model_id = reply'.arg,
                                           !.model_path = models[reply'.arg].model_path]
               /\ UNCHANGED <<models, OutsideRegistry>>]_vars

\* a registered artifact has been activated and the configuration follows it
C9_Witness ==
    /\ reply.op = "activate_model"
    /\ ~reply.raised
    /\ reply.arg = M1
    /\ active_model_id = M1
    /\ config.model_path = ArtifactA

\* C10: a successful unregister removes the named entry and no other, and the
\* active model id becomes heuristic-default if it named that entry and stays
\* as it was otherwise.
C10_UnregisterRemoves ==
    [][(reply'.op = "unregister_model" /\ ~reply'.raised) =>
          /\ reply'.arg \in DOMAIN models
          /\ DOMAIN models' = DOMAIN models \ {reply'.arg}
          /\ \A k \in DOMAIN models' : models'[k] = models[k]
          /\ active_model_id' = IF active_model_id = reply'.arg
                                THEN HEURISTIC_DEFAULT ELSE active_model_id]_vars

\* an entry was removed while another registered artifact stays active
C10_Witness ==
    /\ reply.op = "unregister_model"
    /\ ~reply.raised
    /\ reply.arg = M1
    /\ M1 \notin DOMAIN models
    /\ active_model_id = RUNTIME_MODEL

\* C11: register raises when the id is empty or blank, when the resolved
\* path does not exist or when loading the artifact raises, and then the
\* registry, the active model id and everything else are as before; otherwise
\* it succeeds, the entry named by the stripped id exists, and the active model
\* id is that id if activate is true and is unchanged if it is false.
C11_RegisterValidates ==
    [][reply'.op = "register_model" =>
          LET model_id == strip(reply'.arg.model_id)
              path == Resolve(reply'.arg.model_path)
          IN  IF model_id = <<>> \/ ~PathExists(path) \/ ~Loadable(path)
              THEN /\ reply'.raised
                   /\ UNCHANGED <<config, models, active_model_id, OutsideRegistry>>
              ELSE /\ ~reply'.raised
                   /\ model_id \in DOMAIN models'
                   /\ models'[model_id].model_path = path
                   /\ \A k \in DOMAIN models \ {model_id} :
                          k \in DOMAIN models' /\ models'[k] = models[k]
                   /\ active_model_id' = IF reply'.arg.activate
                                         THEN model_id ELSE active_model_id]_vars

\* an artifact was registered without activation beside the active model
C11_Witness ==
    /\ reply.op = "register_model"
    /\ ~reply.raised
    /\ ~reply.arg.activate
    /\ M1 \in DOMAIN models
    /\ active_model_id = RUNTIME_MODEL

\* C12 as stated: the entry heuristic-default is always the built-in
\* heuristic: type heuristic, no predictor.
C12_DefaultIsHeuristic ==
    /\ HEURISTIC_DEFAULT \in DOMAIN models
    /\ models[HEURISTIC_DEFAULT].model_type = "heuristic"
    /\ models[HEURISTIC_DEFAULT].predictor.kind = "none"

\* the timestamps of a window, in order
Timestamps(buffer) == [i \in 1..Len(buffer) |-> buffer[i].timestamp_ms]

NonDecreasing(ts) == \A i \in 1..(Len(ts) - 1) : ts[i] <= ts[i + 1]

\* a step in which the track object_id is pushed exactly once
PushedOnce(object_id) ==
    /\ object_id \in DOMAIN track_log'
    /\ Len(track_log'[object_id]) = Len(Get(track_log, object_id, <<>>)) + 1

\* C13: when the timestamps of a track arrive in non-decreasing order, the
\* window after a push is what was retained before followed by the new
\* observation, without the observations whose timestamp is strictly less than
\* the new timestamp minus the feature window, in arrival order; an observation
\* exactly at the cutoff stays.
C13_WindowAfterPush ==
    [][\A object_id \in DOMAIN track_log' :
          LET before == Get(buffers, object_id, <<>>)
              cutoff == clock - feature_window_ms
              retained == SelectSeq(before, LAMBDA o : o.timestamp_ms >= cutoff)
              after == buffers'[object_id]
          IN  (PushedOnce(object_id) /\ NonDecreasing(Append(Timestamps(before), clock)))
              => IF clock >= cutoff
                 THEN /\ Len(after) = Len(retained) + 1
                      /\ SubSeq(after, 1, Len(retained)) = retained
                      /\ after[Len(after)].timestamp_ms = clock
                 ELSE after = <<>>]_vars

\* four pushes 500, 1000 or 1500 ms apart with a window of 2000 ms: the first
\* is evicted at the fourth, and the one exactly 2000 ms old is kept
C13_Witness ==
    /\ feature_window_ms = 2000
    /\ T1 \in DOMAIN track_log /\ Len(track_log[T1]) = 4
    /\ Timestamps(buffers[T1]) = <<1000, 2500, 3000>>

\* C14 as stated: a track that has been pushed has a window that is not empty
\* and ends with the observation pushed last, whatever feature window the
\* engine holds.
C14_WindowNeverEmpty ==
    \A object_id \in DOMAIN track_log :
        /\ object_id \in DOMAIN buffers
        /\ buffers[object_id] # <<>>
        /\ buffers[object_id][Len(buffers[object_id])].timestamp_ms <= clock

\* a step made by one of the operations called from outside the loop
OutsideCall ==
    /\ tasks' = tasks
    /\ clock' = clock
    /\ reply'.op \in {"snapshot", "health", "list_models", "register_model",
                      "activate_model", "unregister_model", "reload"}

\* C15: snapshot, health, list, register, activate, unregister and reload
\* (threshold and feature window changes included) leave the track windows,
\* the decision history and the latency histories as they are; the window of
\* a track changes only in a step that pushes the track, and the push applies
\* the feature window the engine holds then.
C15_OutsideLeavesTracks ==
    [][/\ OutsideCall => UNCHANGED <<buffers, last_uav_decision, historyVars>>
       /\ \A object_id \in DOMAIN buffers :
              Get(track_log', object_id, <<>>) = Get(track_log, object_id, <<>>)
              => /\ object_id \in DOMAIN buffers'
                 /\ buffers'[object_id] = buffers[object_id]
       /\ \A object_id \in DOMAIN track_log' :
              PushedOnce(object_id)
              => \A i \in 1..Len(buffers'[object_id]) :
                     buffers'[object_id][i].timestamp_ms >= clock - feature_window_ms]_vars

\* the feature window was just reloaded down to 200 ms while the window of T1
\* still holds an observation 500 ms older than its last
C15_Witness ==
    /\ reply.op = "reload" /\ ~reply.raised /\ DOMAIN reply.arg = {"featureWindowMs"}
    /\ feature_window_ms = 200
    /\ T1 \in DOMAIN buffers
    /\ Timestamps(buffers[T1]) = <<0, 500>>
    /\ inference_ms_history # <<>>

\* C16: for every threshold T and every probability p in [0, 100] the
\* decision is UAV exactly when p >= T, NON_UAV exactly when p < T and
\* p <= T - 20, and UNKNOWN exactly in the remaining case; the three cases
\* exclude each other and cover everything.
C16_DecisionBands ==
    reply.op = "to_uav_decision" =>
        LET p == reply.arg
            T == reply.threshold
            is_uav == p.num >= T * p.den
            is_non_uav == p.num < T * p.den /\ p.num <= (T - 20) * p.den
        IN  /\ reply.decision \in {"UAV", "NON_UAV", "UNKNOWN"}
            /\ (reply.decision = "UAV") <=> is_uav
            /\ (reply.decision = "NON_UAV") <=> is_non_uav
            /\ (reply.decision = "UNKNOWN") <=> (~is_uav /\ ~is_non_uav)
            /\ ~(is_uav /\ is_non_uav)

\* the probability exactly at T - 20, decided NON_UAV
C16_Witness ==
    /\ reply.op = "to_uav_decision"
    /\ reply.threshold = 60
    /\ reply.arg.num = 40 * reply.arg.den
    /\ reply.decision = "NON_UAV"

\* C17: every probability map classification returns has exactly the seven
\* labels as keys, no negative value, and values that sum to 100, whether it
\* comes from the heuristic, from the external probability query, from the
\* external one-hot label or from the empty-window fallback.
C17_ProbabilityMap ==
    \A object_id \in DOMAIN track_log :
        \A i \in 1..Len(track_log[object_id]) :
            LET probabilities == track_log[object_id][i].probabilities
            IN  /\ DOMAIN probabilities.num = Labels
                /\ probabilities.den > 0
                /\ \A l \in Labels : probabilities.num[l] >= 0
                /\ SumOver(probabilities.num, Labels) = 100 * probabilities.den

\* the label-only model active: a one-hot map from its recognised label, then
\* the heuristic's map when its label is not recognised
C17_Witness ==
    /\ get_active_model(Registry).model_path = ArtifactL
    /\ T1 \in DOMAIN track_log /\ Len(track_log[T1]) = 2
    /\ track_log[T1][1].probabilities = OneHot("UAV")
    /\ track_log[T1][2].probabilities = predict_with_heuristic(buffers[T1])
    /\ track_log[T1][2].probabilities.den > 1

\* the percent the probability query gives to recognised labels: through the
\* vocabulary, or as [nonUAV, UAV] when there is none and the scores are two
RecognisedTotal(predictor, scores) ==
    IF predictor.classes = <<>>
    THEN (IF Len(scores) = 2
          THEN Max(0, Min(100, scores[1])) + Max(0, Min(100, scores[2]))
          ELSE 0)
    ELSE SumOver(MapZip(predictor.classes, scores, [l \in Labels |-> 0]), Labels)

\* the predictor raises, or gives nothing recognised, for this feature vector
NothingUsable(predictor, feature_vector) ==
    LET raw_probabilities == predict_proba(predictor, feature_vector)
        prediction == predict(predictor, feature_vector)
    IN  \/ predictor.has_predict_proba /\ raw_probabilities.raises
        \/ /\ (predictor.has_predict_proba
                  => RecognisedTotal(predictor, raw_probabilities.value) <= 0)
            /\ (predictor.has_predict
                  => (prediction.raises \/ normalize_class_label(prediction.value) = NoLabel))

\* C18 as stated: with an external model active, when the predictor raises
\* on a query or returns an unrecognised or empty result, classification
\* returns exactly the map the heuristic gives for the same window.
C18_FallsBackToHeuristic ==
    [][\A object_id \in DOMAIN track_log' :
          LET active_model == get_active_model(Registry)
              window == buffers'[object_id]
              log == track_log'[object_id]
          IN  (/\ PushedOnce(object_id)
               /\ window # <<>>
               /\ active_model.model_type = "joblib"
               /\ NothingUsable(active_model.predictor, build_feature_vector(window)))
              => log[Len(log)].probabilities = predict_with_heuristic(window)]_vars

\* C19 as stated: after the startup configuration is loaded and after any
\* sequence of patches, the poll interval is at least 20, the request timeout
\* at least 100, the threshold within 1..99 and the feature window at least
\* 200, and the engine's threshold and feature window equal the configured
\* ones.
C19_ConfigInRange ==
    /\ config.poll_interval_ms >= 20
    /\ config.request_timeout_ms >= 100
    /\ config.uav_threshold >= 1 /\ config.uav_threshold <= 99
    /\ config.feature_window_ms >= 200
    /\ threshold = config.uav_threshold
    /\ feature_window_ms = config.feature_window_ms

\* the configuration fields that are not about the model, with their patch keys
PlainFields ==
    << <<"argus_source_url", "argusSourceUrl">>,
       <<"argus_auth_token", "argusAuthToken">>,
       <<"poll_interval_ms", "pollIntervalMs">>,
       <<"request_timeout_ms", "requestTimeoutMs">>,
       <<"uav_threshold", "uavThreshold">>,
       <<"feature_window_ms", "featureWindowMs">> >>

ModelFields == << <<"model_path", "modelPath">>, <<"active_model_id", "activeModelId">> >>

\* the value a patch leaves in a field it names, from the patched value alone
Clamped(key, value) ==
    CASE key = "pollIntervalMs" -> Max(20, value)
      [] key = "requestTimeoutMs" -> Max(100, value)
      [] key = "uavThreshold" -> Max(1, Min(99, value))
      [] key = "featureWindowMs" -> Max(200, value)
      [] key = "activeModelId" -> (IF value = <<>> THEN HEURISTIC_DEFAULT ELSE value)
      [] OTHER -> value

\* a reload step leaves in these fields the clamped value when the patch
\* names the field and the value before when it does not
PatchedOnly(fields) ==
    \A i \in 1..Len(fields) :
        config'[fields[i][1]] =
            IF Has(reply'.arg, fields[i][2])
            THEN Clamped(fields[i][2], reply'.arg[fields[i][2]])
            ELSE config[fields[i][1]]

\* C20 as stated: a reload changes only the configuration fields its patch
\* names, each clamped on its own; every other field, the model path and the
\* active model id included, keeps its value.
C20_OnlyNamedFields ==
    [][reply'.op = "reload" => PatchedOnly(PlainFields) /\ PatchedOnly(ModelFields)]_vars

\* C20, amended: a reload changes the six fields that are not about the model
\* only when its patch names them, each clamped on its own; when the reload
\* succeeds, the model path and the active model id are set to those of the
\* engine's active model, named or not; when it is rejected they hold what the
\* patch named and are otherwise unchanged.
C20_NamedFieldsAndSync ==
    [][reply'.op = "reload" =>
          /\ PatchedOnly(PlainFields)
          /\ IF reply'.raised
             THEN PatchedOnly(ModelFields)
             ELSE /\ config'.active_model_id = active_model_id'
                  /\ config'.model_path = models'[active_model_id'].model_path]_vars

\* a reload naming the poll interval and the threshold, both out of range,
\* after the request timeout had been patched
C20_Witness ==
    /\ reply.op = "reload" /\ ~reply.raised
    /\ DOMAIN reply.arg = {"pollIntervalMs", "uavThreshold"}
    /\ config.poll_interval_ms = 20 /\ config.uav_threshold = 99
    /\ config.request_timeout_ms = 100
    /\ config.feature_window_ms = 2000
    /\ config.active_model_id = RUNTIME_MODEL /\ config.model_path = ArtifactA

\* the window of a track seen once, as the object {id, z 100, speed 20,
\* distance 50, confidence 90, class DRONE}
SeenOnceAsDrone(window) ==
    /\ Len(window) = 1
    /\ window[1].z = 100 /\ window[1].speed = 20 /\ window[1].distance = 50
    /\ window[1].confidence = 90
    /\ window[1].object_class = <<"D", "R", "O", "N", "E">>

\* C21: with the heuristic model active, threshold 35 and no track seen yet,
\* a successful cycle over a payload whose only object is the drone T1
\* publishes a snapshot whose first object has id T1 and decision UAV,
\* and whose events are one ALERT for T1.
C21_DroneEndToEnd ==
    [][(/\ CycleEnds /\ cycle_outcome'.result = "published"
        /\ buffers = <<>> /\ last_uav_decision = <<>>
        /\ threshold = 35
        /\ get_active_model(Registry).model_type = "heuristic"
        /\ DOMAIN buffers' = {T1} /\ SeenOnceAsDrone(buffers'[T1]))
       => /\ Len(last_frame'.objects) = 1
          /\ last_frame'.objects[1].id = T1
          /\ last_frame'.objects[1].uavDecision = "UAV"
          /\ Len(last_frame'.events) = 1
          /\ last_frame'.events[1].type = "ALERT"
          /\ last_frame'.events[1].objectId = T1]_vars

\* the snapshot right after that first cycle
C21_Witness ==
    /\ cycle_outcome = [cycle |-> 1, result |-> "published", error |-> ""]
    /\ threshold = 35 /\ active_model_id = HEURISTIC_DEFAULT
    /\ DOMAIN buffers = {T1} /\ SeenOnceAsDrone(buffers[T1])
    /\ last_frame.origin.objects = 1
    /\ last_frame.objects[1].id = T1
    /\ last_frame.objects[1].uavDecision = "UAV"

\* observations classified in this step
PushCount ==
    SumOver([object_id \in DOMAIN track_log' |->
                Len(track_log'[object_id]) - Len(Get(track_log, object_id, <<>>))],
            DOMAIN track_log')

\* `after` is `before` with k entries appended under the capacity: no longer
\* than the capacity, and what remains of `before` is all but its oldest
\* entries beyond the capacity, in the same order
AppendedWithin(before, after, k, capacity) ==
    LET dropped == Len(before) + k - Len(after)
    IN  /\ Len(after) = Min(capacity, Len(before) + k)
        /\ \A i \in 1..(Len(before) - dropped) : after[i] = before[i + dropped]

\* C22: the frame-timestamp history never holds more than 240 entries and the
\* inference, per-frame model and pipeline latency histories never more than
\* 300; an append to a full history drops exactly the oldest entry and keeps
\* the others in order.
C22_BoundedHistories ==
    [][/\ AppendedWithin(frame_timestamp_history, frame_timestamp_history',
                         IF CycleEnds /\ cycle_outcome'.result = "published" THEN 1 ELSE 0,
                         240)
       /\ AppendedWithin(pipeline_ms_history, pipeline_ms_history',
                         IF CycleEnds /\ cycle_outcome'.result = "published" THEN 1 ELSE 0,
                         300)
       /\ AppendedWithin(model_latency_frame_history, model_latency_frame_history',
                         IF CycleEnds /\ cycle_outcome'.result = "published" THEN 1 ELSE 0,
                         300)
       /\ AppendedWithin(inference_ms_history, inference_ms_history', PushCount, 300)
       /\ (CycleEnds /\ cycle_outcome'.result = "published")
             => frame_timestamp_history'[Len(frame_timestamp_history')] = clock]_vars

\* every history is full and has dropped entries: the oldest frame timestamp
\* kept is that of a later cycle than the first
C22_Witness ==
    /\ Len(frame_timestamp_history) = 240 /\ frame_timestamp_history[1] > 0
    /\ Len(inference_ms_history) = 300
    /\ Len(model_latency_frame_history) = 300
    /\ Len(pipeline_ms_history) = 300
    /\ cycle_outcome.cycle > 300

\* the record of the classification a step made for a track it pushed once
Classified(object_id) == track_log'[object_id][Len(track_log'[object_id])]

\* an external model is active
ExternalActive ==
    /\ get_active_model(Registry).model_type = "joblib"
    /\ get_active_model(Registry).predictor.kind # "none"

\* the probability query answers for this window, and the scores it maps into
\* the fixed labels total zero
ZeroTotal(predictor, window) ==
    LET raw_probabilities == predict_proba(predictor, build_feature_vector(window))
        mapped == map_model_output(predictor.classes, raw_probabilities.value)
    IN  /\ predictor.has_predict_proba
        /\ ~raw_probabilities.raises
        /\ (mapped.empty \/ SumOver(mapped.scores, Labels) <= 0)

\* the label query answers a recognised label for this window
LabelRecognised(predictor, window) ==
    LET prediction == predict(predictor, build_feature_vector(window))
    IN  /\ predictor.has_predict
        /\ ~prediction.raises
        /\ normalize_class_label(prediction.value) # NoLabel

\* what the label query and then the heuristic give for this window
AfterProbabilityQuery(predictor, window) ==
    IF LabelRecognised(predictor, window)
    THEN OneHot(normalize_class_label(
                    predict(predictor, build_feature_vector(window)).value))
    ELSE predict_with_heuristic(window)

\* C23 as stated: when the probability query of the external predictor yields
\* mapped scores whose total is zero, two scores without a vocabulary
\* included, the result is discarded and the returned map is the label
\* query's one-hot map or else the heuristic's.
C23_ZeroTotalDiscarded ==
    [][\A object_id \in DOMAIN track_log' :
          LET predictor == get_active_model(Registry).predictor
              window == buffers'[object_id]
          IN  (/\ PushedOnce(object_id)
               /\ window # <<>>
               /\ ExternalActive
               /\ ZeroTotal(predictor, window))
              => Classified(object_id).probabilities
                   = AfterProbabilityQuery(predictor, window)]_vars

\* C24: with an external model active the probability query comes first; the
\* label query is made only when there is no probability query or when that
\* query answered without a usable mapping, and a recognised label gives the
\* one-hot map; the heuristic's map is returned only when neither gave a
\* result.  With the heuristic model active no predictor method is called.
C24_QueryPrecedence ==
    [][\A object_id \in DOMAIN track_log' :
          LET predictor == get_active_model(Registry).predictor
              window == buffers'[object_id]
              done == Classified(object_id)
              raw_probabilities == predict_proba(predictor, build_feature_vector(window))
              mapped == map_model_output(predictor.classes, raw_probabilities.value)
              answered == predictor.has_predict_proba /\ ~raw_probabilities.raises
              usable == answered /\ ~mapped.empty
              label_asked == /\ predictor.has_predict
                             /\ (~predictor.has_predict_proba \/ (answered /\ mapped.empty))
          IN  (PushedOnce(object_id) /\ window # <<>>)
              => IF ~ExternalActive
                 THEN /\ done.queries = <<>>
                      /\ done.probabilities = predict_with_heuristic(window)
                 ELSE /\ done.queries =
                            (IF predictor.has_predict_proba THEN <<"predict_proba">> ELSE <<>>)
                            \o (IF label_asked THEN <<"predict">> ELSE <<>>)
                      /\ done.probabilities =
                            IF usable THEN normalize_probability_map(mapped.scores)
                            ELSE IF label_asked /\ LabelRecognised(predictor, window)
                            THEN OneHot(normalize_class_label(
                                     predict(predictor, build_feature_vector(window)).value))
                            ELSE predict_with_heuristic(window)]_vars

\* the model with the vocabulary ("0", "1") answered three scores, was then
\* asked for its label, and "drone" gave the one-hot map on UAV
C24_Witness ==
    /\ get_active_model(Registry).model_path = ArtifactK
    /\ T1 \in DOMAIN track_log
    /\ LET log == track_log[T1]
       IN  /\ log[Len(log)].queries = <<"predict_proba", "predict">>
           /\ log[Len(log)].probabilities = OneHot("UAV")

\* C26: an empty feature window is classified as the uniform map, 100/7 for
\* each of the seven labels, whichever model is active, and no predictor
\* method is called for it.
C26_EmptyWindowUniform ==
    [][\A object_id \in DOMAIN track_log' :
          (PushedOnce(object_id) /\ buffers'[object_id] = <<>>)
          => LET done == Classified(object_id)
             IN  /\ done.queries = <<>>
                 /\ DOMAIN done.probabilities.num = Labels
                 /\ \A l \in Labels :
                        7 * done.probabilities.num[l] = 100 * done.probabilities.den]_vars

\* an external model is active and a track was classified on an empty window
C26_Witness ==
    /\ ExternalActive
    /\ T1 \in DOMAIN track_log /\ Len(track_log[T1]) = 2
    /\ buffers[T1] = <<>>
    /\ track_log[T1][2].queries = <<>>
    /\ track_log[T1][2].probabilities = UniformMap

\* the place of a label in the fixed order
LabelIndex(label) == CHOOSE i \in 1..Len(MULTICLASS_LABELS) : MULTICLASS_LABELS[i] = label

\* the published objects of the track object_id
PublishedFor(frame, object_id) ==
    {frame.objects[i] : i \in {k \in DOMAIN frame.objects : frame.objects[k].id = object_id}}

\* C25: the published class of a classified track is a label whose probability
\* is the largest of the distribution; of several labels with exactly that
\* probability it is the first in the order HELICOPTER, UAV, HIGHSPEED,
\* BIRD_FLOCK, BIRD, CIVIL_AIR, FIGHTER; and the published confidence is the
\* probability published for that label, the largest of the published list.
C25_TopClass ==
    [][\A object_id \in DOMAIN track_log' :
          (PushedOnce(object_id) /\ CycleEnds /\ cycle_outcome'.result = "published")
          => \A published \in PublishedFor(last_frame', object_id) :
                LET exact == Classified(object_id).probabilities.num
                    listed == published.probabilities
                IN  /\ published.class \in Labels
                    /\ \A l \in Labels : exact[l] <= exact[published.class]
                    /\ \A l \in Labels :
                          exact[l] = exact[published.class]
                          => LabelIndex(published.class) <= LabelIndex(l)
                    /\ {listed[k].className : k \in DOMAIN listed} = Labels
                    /\ \A k \in DOMAIN listed :
                          /\ listed[k].probability <= published.confidence
                          /\ listed[k].className = published.class
                             => listed[k].probability = published.confidence
                    /\ published.confidence =
                          Round2([num |-> exact[published.class],
                                  den |-> Classified(object_id).probabilities.den])]_vars

\* a published track whose HELICOPTER and UAV probabilities are both 800/30,
\* the largest: HELICOPTER, the earlier label, is the class, at 26.67
C25_Witness ==
    /\ cycle_outcome.result = "published"
    /\ T1 \in DOMAIN track_log
    /\ LET exact == track_log[T1][Len(track_log[T1])].probabilities
       IN  /\ exact.num["UAV"] = exact.num["HELICOPTER"]
           /\ 3 * exact.num["UAV"] = 80 * exact.den
           /\ \A l \in Labels : exact.num[l] <= exact.num["UAV"]
    /\ \E published \in PublishedFor(last_frame, T1) :
          /\ published.class = "HELICOPTER"
          /\ published.confidence = 2667
          /\ published.probabilities[2] = [className |-> "UAV", probability |-> 2667]

\* the element at zero-based index k of `values` sorted ascending
AtRank(values, k) ==
    CHOOSE v \in {values[i] : i \in DOMAIN values} :
        /\ Cardinality({i \in DOMAIN values : values[i] < v}) <= k
        /\ k < Cardinality({i \in DOMAIN values : values[i] <= v})

\* floor(percent / 100 * m)
FloorOf(percent, m) == CHOOSE k \in 0..m : 100 * k <= percent * m /\ percent * m < 100 * (k + 1)

\* C27 as stated: the percentile helper returns (0, 0) for an empty history;
\* otherwise p50 and p95 are the elements at the zero-based indices
\* floor(0.5 * (n - 1)) and floor(0.95 * (n - 1)) of the history sorted
\* ascending, so both are members of the history and p50 <= p95.
C27_Percentiles ==
    reply.op = "percentiles"
    => LET values == reply.arg
           n == Len(values)
       IN  IF n = 0 THEN reply.result = <<0, 0>>
           ELSE /\ reply.result[1] = AtRank(values, FloorOf(50, n - 1))
                /\ reply.result[2] = AtRank(values, FloorOf(95, n - 1))
                /\ \E i \in 1..n : reply.result[1] = values[i]
                /\ \E i \in 1..n : reply.result[2] = values[i]
                /\ reply.result[1] <= reply.result[2]

\* C27 amended: the percentile helper returns (0, 0) for an empty history;
\* otherwise p50 and p95 are the elements at the zero-based indices
\* floor(0.5 * (n - 1)) and floor(0.95 * (n - 1)) of the history sorted
\* ascending, each rounded to three decimals, and p50 <= p95; the history (5)
\* gives 5 and 5 and the history (1, 2, 3, 4) gives 2 and 3.
C27_PercentilesRounded ==
    reply.op = "percentiles"
    => LET values == reply.arg
           n == Len(values)
       IN  IF n = 0 THEN reply.result = <<0, 0>>
           ELSE /\ reply.result[1] = Round3(AtRank(values, FloorOf(50, n - 1)))
                /\ reply.result[2] = Round3(AtRank(values, FloorOf(95, n - 1)))
                /\ \E i \in 1..n : reply.result[1] = Round3(values[i])
                /\ \E i \in 1..n : reply.result[2] = Round3(values[i])
                /\ reply.result[1] <= reply.result[2]
                /\ values = <<5 * OneMs>> => reply.result = <<5 * OneMs, 5 * OneMs>>
                /\ values = <<OneMs, 2 * OneMs, 3 * OneMs, 4 * OneMs>>
                   => reply.result = <<2 * OneMs, 3 * OneMs>>

\* the helper answered for an unsorted history of four latencies whose second
\* smallest is 0.0016 ms: p50 is 0.002 ms, which is not in the history, and
\* p95 is 3 ms
C27_Witness ==
    /\ reply.op = "percentiles"
    /\ reply.arg = <<4 * OneMs, 4, 3 * OneMs, 16>>
    /\ reply.result = <<20, 3 * OneMs>>

\* the configuration names the engine's active model and its source path
ConfigInSync(cfg, reg) ==
    /\ cfg.active_model_id = reg.active
    /\ cfg.model_path = reg.models[reg.active].model_path

\* C28 as stated: after every register, activate, unregister or reload made
\* through the service state, accepted or rejected, the configuration's
\* active model id is the engine's and its model path is the active model's
\* source path.
C28_ConfigFollowsEngine ==
    [][reply'.op \in {"register_model", "activate_model", "unregister_model", "reload"}
       => ConfigInSync(config', [models |-> models', active |-> active_model_id'])]_vars

\* C29 as stated: a reload rejected with a validation error leaves the
\* configuration, the engine's threshold and feature window, the registry
\* and the active model as they were before the call.
C29_RejectedReloadChangesNothing ==
    [][(reply'.op = "reload" /\ reply'.raised)
       => /\ config' = config
          /\ threshold' = threshold
          /\ feature_window_ms' = feature_window_ms
          /\ models' = models
          /\ active_model_id' = active_model_id]_vars

\* this step records UAV as the last decision of a track whose last decision
\* was something else, or that had none
BecomesUav(object_id) ==
    /\ object_id \in DOMAIN last_uav_decision'
    /\ last_uav_decision'[object_id] = "UAV"
    /\ (object_id \in DOMAIN last_uav_decision => last_uav_decision[object_id] # "UAV")

\* C30 as stated: whenever the decision history changes a track's last
\* decision to UAV from another value or from none, the snapshot published by
\* that cycle holds an ALERT event for the track; no such change is recorded
\* without its alert being published.  The objects are processed and the
\* snapshot is replaced without a suspension point in between, so the cycle's
\* snapshot is the one after the step.
C30_TransitionAlertPublished ==
    [][\A object_id \in DOMAIN last_uav_decision' :
          BecomesUav(object_id)
          => /\ last_frame'.origin.events = cycle_outcome'.cycle
             /\ cycle_outcome'.result = "published"
             /\ \E i \in DOMAIN last_frame'.events :
                   /\ last_frame'.events[i].type = "ALERT"
                   /\ last_frame'.events[i].objectId = object_id]_vars

\* C31: whatever reloads and registry calls are made between the steps of the
\* loop, every object of a published cycle is classified with the threshold,
\* the feature window and the active model the engine holds when the cycle's
\* response is processed, and the uavThreshold, featureWindowMs and
\* inferenceModelVersion of the objects of a snapshot are the same on all.
C31_OneSettingPerCycle ==
    [][/\ (CycleEnds /\ cycle_outcome'.result = "published")
          => /\ \A i \in DOMAIN last_frame'.objects :
                   /\ last_frame'.objects[i].uavThreshold = threshold
                   /\ last_frame'.objects[i].featureWindowMs = feature_window_ms
                   /\ last_frame'.objects[i].inferenceModelVersion = model_version(Registry)
             /\ \A object_id \in DOMAIN track_log' :
                   PushedOnce(object_id)
                   => /\ buffers'[object_id]
                           = push(Get(buffers, object_id, <<>>),
                                  buffers'[object_id][Len(buffers'[object_id])],
                                  feature_window_ms)
                      /\ Classified(object_id).probabilities
                           = predict_multiclass_probabilities(Registry, buffers'[object_id])
                      /\ Classified(object_id).decision
                           = to_uav_decision(
                                 to_uav_probability(Classified(object_id).probabilities),
                                 threshold)
       /\ \A i, j \in DOMAIN last_frame'.objects :
             /\ last_frame'.objects[i].uavThreshold = last_frame'.objects[j].uavThreshold
             /\ last_frame'.objects[i].featureWindowMs
                  = last_frame'.objects[j].featureWindowMs
             /\ last_frame'.objects[i].inferenceModelVersion
                  = last_frame'.objects[j].inferenceModelVersion]_vars

\* a snapshot of two objects classified under threshold 60 and the runtime
\* model, read after the threshold was reloaded and the model activated
\* between two cycles
C31_Witness ==
    /\ cycle_outcome.result = "published" /\ cycle_outcome.cycle = 2
    /\ Len(last_frame.objects) = 2
    /\ last_frame.origin.objects = 2
    /\ threshold = 60 /\ active_model_id = M1
    /\ \A i \in 1..2 :
          /\ last_frame.objects[i].uavThreshold = 60
          /\ last_frame.objects[i].inferenceModelVersion = model_version(Registry)

\* C32: in the snapshot the service holds, from construction on and after
\* published and failed cycles alike, the status counts as tracked the objects
\* of that snapshot, its total of detections is no smaller, and it is LIVE
\* exactly when source_connected is set.
C32_StatusMatchesSnapshot ==
    /\ last_frame.systemStatus.trackedObjects = Len(last_frame.objects)
    /\ last_frame.systemStatus.totalDetected >= last_frame.systemStatus.trackedObjects
    /\ (last_frame.systemStatus.connectionStatus = "LIVE") = source_connected
    /\ last_frame.systemStatus.connectionStatus \in {"LIVE", "DISCONNECTED"}

\* a cycle failed after one that published two objects with a feed total of 5:
\* the retained snapshot is DISCONNECTED over the same two objects
C32_Witness ==
    /\ cycle_outcome.result = "failed"
    /\ ~source_connected
    /\ Len(last_frame.objects) = 2
    /\ last_frame.systemStatus.trackedObjects = 2
    /\ last_frame.systemStatus.totalDetected = 5
    /\ last_frame.systemStatus.connectionStatus = "DISCONNECTED"
    /\ last_frame.origin.systemStatus > last_frame.origin.objects

\* the events of a frame that poll_once made itself when a track became UAV
SyntheticAlerts(frame) ==
    {frame.events[i] : i \in {k \in DOMAIN frame.events :
                                 /\ frame.events[k].type = "ALERT"
                                 /\ frame.events[k].message = "UAV suspect"}}

\* C33: every ALERT the service made itself, in the snapshot it holds, names
\* an object of that same snapshot whose decision is UAV; the snapshot kept
\* after failed cycles included.
C33_AlertNamesUavObject ==
    \A alert \in SyntheticAlerts(last_frame) :
        \E i \in DOMAIN last_frame.objects :
            /\ last_frame.objects[i].id = alert.objectId
            /\ last_frame.objects[i].uavDecision = "UAV"

\* a cycle failed after one that published T1 as UAV with its alert: the
\* snapshot kept still holds both
C33_Witness ==
    /\ cycle_outcome.result = "failed"
    /\ last_frame.origin.objects < cycle_outcome.cycle
    /\ \E alert \in SyntheticAlerts(last_frame) : alert.objectId = T1
    /\ \E i \in DOMAIN last_frame.objects :
          last_frame.objects[i].id = T1 /\ last_frame.objects[i].uavDecision = "UAV"

\* the startup path is absent or names an artifact joblib loads
StartupPathLoads(model_path) ==
    model_path = <<>> \/ (PathExists(Resolve(model_path)) /\ Loadable(Resolve(model_path)))

\* the ids registered when the constructor activates the configured id
RegisteredAtStartup(model_path) ==
    {HEURISTIC_DEFAULT} \cup (IF model_path # <<>> THEN {ENV_MODEL} ELSE {})

\* C34 as stated: after construction the active model is the configured
\* active model id if that id is registered at that point (heuristic-default,
\* or env-model when a startup model path was loaded) and heuristic-default
\* otherwise; an unknown active model id does not make construction raise.
C34_ActiveAfterConstruction ==
    reply.op = "construct"
    => /\ reply.raised = ~StartupPathLoads(reply.arg.model_path)
       /\ ~reply.raised
          => /\ reply.models = RegisteredAtStartup(reply.arg.model_path)
             /\ reply.active =
                   IF reply.arg.active_model_id \in RegisteredAtStartup(reply.arg.model_path)
                   THEN reply.arg.active_model_id
                   ELSE HEURISTIC_DEFAULT

\* C34 amended: after construction the active model is the configured active
\* model id if that id is registered at that point; when the configured id is
\* the empty string it is env-model if a startup model path was loaded and
\* heuristic-default if none was; for any other id it is heuristic-default.
\* No active model id makes construction raise: it raises exactly when a
\* startup model path is given that cannot be loaded.
C34_ActiveOrStartupModel ==
    reply.op = "construct"
    => /\ reply.raised = ~StartupPathLoads(reply.arg.model_path)
       /\ ~reply.raised
          => /\ reply.models = RegisteredAtStartup(reply.arg.model_path)
             /\ reply.active =
                   IF reply.arg.active_model_id \in RegisteredAtStartup(reply.arg.model_path)
                   THEN reply.arg.active_model_id
                   ELSE IF reply.arg.active_model_id = <<>> /\ reply.arg.model_path # <<>>
                   THEN ENV_MODEL
                   ELSE HEURISTIC_DEFAULT

\* an engine constructed on a loadable startup path and an id nothing is
\* registered under: env-model is registered, heuristic-default is active
C34_Witness ==
    /\ reply.op = "construct" /\ ~reply.raised
    /\ reply.arg = [model_path |-> ArtifactA, active_model_id |-> UnknownId]
    /\ reply.models = {HEURISTIC_DEFAULT, ENV_MODEL}
    /\ reply.active = HEURISTIC_DEFAULT

====
